---- MODULE Spec2Model ----
(***************************************************************************)
(* Conversation session engine of mcp-healthy: the websocket endpoint of   *)
(* main.py, the query processor of streamablehttp_client.py and the Redis  *)
(* last-message cache of utils/redis_service.py.                           *)
(*                                                                         *)
(* Python values are represented as follows.  A str is a sequence of       *)
(* one-character strings, so that len() and strip() are computed.  None    *)
(* and a non-string JSON number are one-element sequences that no str can  *)
(* equal.  A list is a sequence.                                           *)
(***************************************************************************)
EXTENDS Integers, Sequences, FiniteSets, TLC

None == <<"None">>
PyInt == <<"int">>

\* bool(v) of a Python value: None and the empty str are falsy.
Truthy(v) == v # None /\ v # <<>>

IsStr(v) == v # None /\ v # PyInt

RECURSIVE LStrip(_)
LStrip(str) ==
    IF str # <<>> /\ Head(str) = " " THEN LStrip(Tail(str)) ELSE str

RECURSIVE RStrip(_)
RStrip(str) ==
    IF str # <<>> /\ str[Len(str)] = " "
    THEN RStrip(SubSeq(str, 1, Len(str) - 1))
    ELSE str

\* str.strip()
Strip(str) == RStrip(LStrip(str))

(***************************************************************************)
(* Bounds and input sets.                                                  *)
(***************************************************************************)
\* Frames one connection sends before the client stops sending.
MaxTurns == 2

\* Sockets of the model, and the ones the session specification opens.
Sockets == {1, 2}
SpecSockets == {1}

\* The conversation each socket's URL names.
ConversationOf(s) == "c1"

\* Rows of the documents table, and an id that resolves to nothing.
DocumentIds == {1, 2}

\* An inbound frame: whether it is valid JSON, whether the JSON value is an
\* object, and the object's "message" and "attachments" members.
Frame(valid, is_dict, has_message, message, has_attachments, attachments) ==
    [valid |-> valid, is_dict |-> is_dict,
     has_message |-> has_message, message |-> message,
     has_attachments |-> has_attachments, attachments |-> attachments]

NotJsonFrame == Frame(FALSE, FALSE, FALSE, None, FALSE, <<>>)      \* not json
JsonArrayFrame == Frame(TRUE, FALSE, FALSE, None, FALSE, <<>>)     \* [1, 2]
NoMessageFrame == Frame(TRUE, TRUE, FALSE, None, FALSE, <<>>)      \* {}
MessageFrame(m) == Frame(TRUE, TRUE, TRUE, m, FALSE, <<>>)         \* {"message": m}
AttachmentFrame(m, a) == Frame(TRUE, TRUE, TRUE, m, TRUE, a)

InboundFrames ==
    { NotJsonFrame, JsonArrayFrame, NoMessageFrame,
      MessageFrame(None),                            \* {"message": null}
      MessageFrame(PyInt),                           \* {"message": 12345}
      MessageFrame(<<>>),                            \* {"message": ""}
      MessageFrame(<<" ", " ", " ">>),               \* {"message": "   "}
      MessageFrame(<<"h", "i">>),                    \* {"message": "hi"}
      MessageFrame(<<" ", "h", "i", " ", " ">>),     \* {"message": " hi  "}
      MessageFrame(<<"a", "b", "c">>),               \* {"message": "abc"}
      AttachmentFrame(<<"a", "b", "c">>, <<1, 9>>) }     \* ids 1 and 9

\* The frames of a client that sends attachments: ids out of order, one of
\* them unknown, one of them twice.
AttachmentFrames ==
    { NotJsonFrame,
      MessageFrame(<<"h", "i">>),
      MessageFrame(<<"a", "b", "c">>),
      AttachmentFrame(<<"a", "b", "c">>, <<2, 9, 1, 2>>) }

(***************************************************************************)
(* State.                                                                  *)
(***************************************************************************)
VARIABLES
    ws,                  \* per socket: the locals of websocket_endpoint
    connected,           \* per socket: the peer still holds the connection
    active_connections,  \* ConnectionManager.active_connections
    redis_connected,     \* RedisService.redis is not None
    redis_db,            \* the Redis keyspace: key -> [value, ttl]
    messages,            \* table ai_conversation_messages, in insertion order
    documents,           \* table documents: id -> message_uuid
    conversations,       \* table ai_conversations: uuid -> the row's columns
    obs                  \* per socket: what the session has done (history)

vars == <<ws, connected, active_connections, redis_connected, redis_db,
          messages, documents, conversations, obs>>

(***************************************************************************)
(* utils/redis_service.py: the last-message cache.                         *)
(***************************************************************************)
default_ttl == 2592000
key_prefix == "healthy_mcp"

\* RedisService._make_key
_make_key(conversation_id, key_type) == <<key_prefix, key_type, conversation_id>>

\* json.dumps of the cached dict, by what json.loads gives back for it.  The
\* "timestamp" member is written but never read and is not kept.
JsonDumps(data) ==
    [valid |-> TRUE, content |-> data.content,
     conversation_id |-> data.conversation_id]

\* A stored value that json.loads rejects.
CorruptValue == [valid |-> FALSE, content |-> None, conversation_id |-> ""]

\* A set that leaves a key that exists as it is.
SetIfAbsent(db, key, ttl, value) ==
    [k \in DOMAIN db \cup {key} |->
        IF k \in DOMAIN db THEN db[k] ELSE [value |-> value, ttl |-> ttl]]

\* redis.setex / redis.delete on the keyspace
Setex(db, key, ttl, value) ==
    [k \in DOMAIN db \cup {key} |->
        IF k = key THEN [value |-> value, ttl |-> ttl] ELSE db[k]]

DeleteEverything(db, key) == <<>>

Delete(db, key) == [k \in DOMAIN db \ {key} |-> db[k]]

\* store_last_message(conversation_id, message_content, ttl); ttl 0 stands
\* for the default None.  backend_ok: the Redis call does not raise.
\* Gives the returned bool and the keyspace afterwards.
store_last_message(db, is_connected, conversation_id, message_content, ttl, backend_ok) ==
    IF ~is_connected THEN [ret |-> FALSE, db |-> db]
    ELSE IF ~backend_ok THEN [ret |-> FALSE, db |-> db]
    ELSE LET key == _make_key(conversation_id, "last_message")
             ttl_to_use == IF ttl # 0 THEN ttl ELSE default_ttl
             data == [content |-> message_content,
                      conversation_id |-> conversation_id]
         IN  [ret |-> TRUE, db |-> Setex(db, key, ttl_to_use, JsonDumps(data))]

\* delete_last_message(conversation_id)
delete_last_message(db, is_connected, conversation_id, backend_ok) ==
    IF ~is_connected THEN [ret |-> FALSE, db |-> db]
    ELSE IF ~backend_ok THEN [ret |-> FALSE, db |-> db]
    ELSE LET key == _make_key(conversation_id, "last_message")
         IN  [ret |-> key \in DOMAIN db, db |-> Delete(db, key)]

\* get_last_message leaving a value that is not JSON where it is.
get_last_message_keeps_corrupt(db, is_connected, conversation_id, backend_ok, delete_ok) ==
    IF ~is_connected THEN [ret |-> None, db |-> db]
    ELSE IF ~backend_ok THEN [ret |-> None, db |-> db]
    ELSE LET key == _make_key(conversation_id, "last_message")
         IN  IF key \notin DOMAIN db THEN [ret |-> None, db |-> db]
             ELSE IF ~db[key].value.valid THEN [ret |-> None, db |-> db]
             ELSE [ret |-> db[key].value.content, db |-> db]

\* get_last_message(conversation_id).  A value that is not JSON is deleted
\* (delete_ok: that delete does not raise) and None is returned.
get_last_message(db, is_connected, conversation_id, backend_ok, delete_ok) ==
    IF ~is_connected THEN [ret |-> None, db |-> db]
    ELSE IF ~backend_ok THEN [ret |-> None, db |-> db]
    ELSE LET key == _make_key(conversation_id, "last_message")
         IN  IF key \notin DOMAIN db THEN [ret |-> None, db |-> db]
             ELSE IF ~db[key].value.valid
             THEN [ret |-> None,
                   db |-> delete_last_message(db, is_connected,
                                              conversation_id, delete_ok).db]
             ELSE [ret |-> db[key].value.content, db |-> db]

(***************************************************************************)
(* The durable store (models/conversation.py, models/documents.py).        *)
(***************************************************************************)
\* A Message row.  uuid is the row's position in the table (uuid4 never
\* repeats); created_at is the database clock at the insert.
Message(uuid, conversation_id, role, content, created_at) ==
    [uuid |-> uuid, conversation_id |-> conversation_id, role |-> role,
     content |-> content, created_at |-> created_at]

\* The row stamped with a fixed time instead of the time of the insert.
InsertMessageBackdated(table, conversation_id, role, content) ==
    Append(table, Message(Len(table) + 1, conversation_id, role, content, 0))

\* session.add(Message(..., created_at="now()")); session.commit()
InsertMessage(table, conversation_id, role, content) ==
    Append(table, Message(Len(table) + 1, conversation_id, role, content,
                          Len(table) + 1))

\* The query ordered by created_at ascending: the oldest row.
OldestAssistantMessage(table, conversation_id) ==
    LET rows == { i \in DOMAIN table :
                    /\ table[i].conversation_id = conversation_id
                    /\ table[i].role = "assistant" }
    IN  IF rows = {} THEN 0
        ELSE CHOOSE i \in rows :
                \A j \in rows : table[i].created_at <= table[j].created_at

\* select(Message).where(conversation_id).where(role == "assistant")
\*     .order_by(created_at.desc()) ... .first(): the row's index, 0 for None
NewestAssistantMessage(table, conversation_id) ==
    LET rows == { i \in DOMAIN table :
                    /\ table[i].conversation_id = conversation_id
                    /\ table[i].role = "assistant" }
    IN  IF rows = {} THEN 0
        ELSE CHOOSE i \in rows :
                \A j \in rows : table[j].created_at <= table[i].created_at

\* The attributes a Conversation row has.
ConversationFields ==
    {"uuid", "user_id", "last_message", "last_message_role",
     "created_at", "updated_at", "deleted_at"}

\* The title a conversation is created with.
NewConversation == <<"New Conversation">>

\* `conversation.title in (None, "", "New Conversation")`
UntitledTitles == {None, <<>>, NewConversation}

\* The conversations table: no row for the conversation, or the row as it
\* was created.
InitialConversations ==
    { <<>>, [c \in {"c1"} |-> [title |-> NewConversation, last_message |-> None]] }

(***************************************************************************)
(* Initial state: the store and the cache as earlier sessions left them.   *)
(***************************************************************************)
\* r with the fields of ch replaced
Upd(r, ch) == [f \in DOMAIN r |-> IF f \in DOMAIN ch THEN ch[f] ELSE r[f]]

InitialHistories ==
    { <<>>,
      <<Message(1, "c1", "user", <<"a", "b", "c">>, 1)>>,
      <<Message(1, "c1", "user", <<"a", "b", "c">>, 1),
        Message(2, "c1", "assistant", <<"s">>, 2),
        Message(3, "c1", "assistant", <<"r">>, 3)>> }

\* The cache entry an earlier session left for the newest assistant Message.
CacheAfter(table, conversation_id) ==
    LET last == NewestAssistantMessage(table, conversation_id)
    IN  IF last = 0 THEN <<>>
        ELSE store_last_message(<<>>, TRUE, conversation_id,
                                table[last].content, 0, TRUE).db

InitLocals ==
    [pc |-> "start", client |-> "unbound", mcp_session |-> FALSE,
     last_message_text |-> None, message_received |-> NotJsonFrame,
     message_content |-> None, message_attachments |-> <<>>,
     message_uuid |-> 0, urls |-> <<>>,
     pq_response |-> <<>>, pq_idx |-> 0, pq_message |-> None,
     response |-> None, response_uuid |-> 0, exc |-> "", exc_at |-> "",
     frames |-> <<>>, turns |-> 0]

InitObs ==
    [cleanups |-> 0, returned |-> FALSE, setup_failed |-> FALSE,
     cache_reads |-> 0, cache_ret |-> None, store_reads |-> 0,
     refill |-> <<>>, loop_entered |-> FALSE, ctx |-> None,
     cache_present |-> FALSE,
     frames_read |-> 0, persisted |-> 0, malformed |-> FALSE,
     frame_writes |-> 0, turn_failed |-> FALSE, turn_completed |-> FALSE,
     yielded |-> <<>>, turn_assistant |-> 0,
     disconnected_mid_turn |-> FALSE,
     tracing |-> FALSE, trace |-> <<>>, pq_first |-> <<>>, pq_done |-> FALSE,
     title_done |-> FALSE,
     title_entered |-> FALSE, title_due |-> FALSE, title_called |-> FALSE,
     title_raised |-> FALSE, title_calls |-> 0,
     attaching |-> FALSE, found |-> <<>>,
     assistant_persisted |-> 0, assistant_acked |-> 0,
     pq_messages |-> <<>>, cache_op |-> <<>>, broadcast |-> <<>>]

Init ==
    /\ ws = [s \in Sockets |-> InitLocals]
    /\ obs = [s \in Sockets |-> InitObs]
    /\ connected = [s \in Sockets |-> TRUE]
    /\ active_connections = <<>>
    /\ redis_connected \in BOOLEAN
    /\ messages \in InitialHistories
    /\ redis_db \in { <<>>, CacheAfter(messages, "c1") }
    /\ documents = [d \in DocumentIds |-> 0]
    /\ conversations \in InitialConversations

(***************************************************************************)
(* The transport.                                                          *)
(***************************************************************************)
\* What websocket.send_text / accept can do: with the peer gone the call
\* raises WebSocketDisconnect or another exception, or the bytes are
\* buffered and the call returns.
TransportOutcomes(s) ==
    IF connected[s] THEN {"ok"} ELSE {"ok", "WebSocketDisconnect", "Exception"}

\* Outbound frames.
TypingFrame(status) ==
    [type |-> "typing", status |-> status, role |-> "", content |-> <<>>,
     uuid |-> 0, text |-> ""]
MessageDict(m) ==
    [type |-> "message", status |-> FALSE, role |-> m.role,
     content |-> m.content, uuid |-> m.uuid, text |-> ""]
ErrorFrame ==
    [type |-> "error", status |-> FALSE, role |-> "", content |-> <<>>,
     uuid |-> 0, text |-> "str(e)"]
UpdateConversationFrame ==
    [type |-> "update-conversation", status |-> FALSE, role |-> "",
     content |-> <<>>, uuid |-> 0, text |-> ""]
PlainText(text) ==
    [type |-> "text", status |-> FALSE, role |-> "", content |-> <<>>,
     uuid |-> 0, text |-> text]

\* Where the turn is between the commit of the user Message and the return
\* of the first provider call.
ProviderWait == {"ack_user", "attachments", "process_query"}

\* The peer closes the connection; it can do so at any time.
ClientDisconnect(s) ==
    /\ connected[s]
    /\ ws[s].pc \notin {"start", "done"}
    /\ connected' = [connected EXCEPT ![s] = FALSE]
    /\ obs' = [obs EXCEPT ![s] =
            Upd(@, [disconnected_mid_turn |-> ws[s].pc \in ProviderWait])]
    /\ UNCHANGED <<ws, active_connections, redis_connected, redis_db,
                   messages, documents, conversations>>

\* An exception that leaves the message loop, raised at `at`.
RaiseOuter(kind, at) == [pc |-> "except_outer", exc |-> kind, exc_at |-> at]

(***************************************************************************)
(* websocket_endpoint: session setup.                                      *)
(***************************************************************************)
\* manager.connect(websocket): accept, then register the socket.
Connect(s) ==
    /\ ws[s].pc = "start"
    /\ \E out \in TransportOutcomes(s) :
          IF out = "ok"
          THEN /\ active_connections' = Append(active_connections, s)
               /\ ws' = [ws EXCEPT ![s] = Upd(@, [pc |-> "connect_to_server"])]
          ELSE /\ active_connections' = active_connections
               /\ ws' = [ws EXCEPT ![s] = Upd(@, RaiseOuter(out, "accept"))]
    /\ UNCHANGED <<connected, redis_connected, redis_db, messages, documents,
                   conversations, obs>>

\* connect_to_server logging the failure without raising it again.
connect_to_server_swallowed(ok) == [raised |-> FALSE, session |-> ok]

\* StreamableHTTPClient.connect_to_server: on failure the exception is logged
\* and raised again.  ok: the MCP server accepts the connection.
connect_to_server(ok) == [raised |-> ~ok, session |-> ok]

\* client = StreamableHTTPClient(...); await client.connect_to_server()
CreateClient(s) ==
    /\ ws[s].pc = "connect_to_server"
    /\ \E ok \in BOOLEAN :
          LET r == connect_to_server(ok)
          IN  /\ ws' = [ws EXCEPT ![s] =
                    IF r.raised
                    THEN Upd(@, [client |-> "bound"] @@
                                RaiseOuter("Exception", "connect_to_server"))
                    ELSE Upd(@, [client |-> "bound", mcp_session |-> r.session,
                                 pc |-> "get_cached"])]
              /\ obs' = [obs EXCEPT ![s] = Upd(@, [setup_failed |-> ~ok])]
    /\ UNCHANGED <<connected, active_connections, redis_connected, redis_db,
                   messages, documents, conversations>>

\* The store queried whatever the cache returned.
CacheHitIgnored(text) == FALSE

\* `if last_message_text:` after the cache read: a hit skips the store.
CacheHit(text) == Truthy(text)

\* The message loop is entered with the resolved context.
EnterLoop(s, text) == [loop_entered |-> TRUE, ctx |-> text]

\* last_message_text = await redis_service.get_last_message(conversation_id)
GetCached(s) ==
    /\ ws[s].pc = "get_cached"
    /\ \E backend_ok \in BOOLEAN, delete_ok \in BOOLEAN :
          LET r == get_last_message(redis_db, redis_connected,
                                    ConversationOf(s), backend_ok, delete_ok)
              hit == CacheHit(r.ret)
          IN  /\ redis_db' = r.db
              /\ ws' = [ws EXCEPT ![s] =
                    Upd(@, [last_message_text |-> r.ret,
                            pc |-> IF hit THEN "receive" ELSE "query_store"])]
              /\ obs' = [obs EXCEPT ![s] =
                    Upd(@, [cache_reads |-> @.cache_reads + 1,
                            cache_ret |-> r.ret,
                            cache_present |->
                                _make_key(ConversationOf(s), "last_message")
                                    \in DOMAIN redis_db] @@
                           (IF hit THEN EnterLoop(s, r.ret) ELSE <<>>))]
    /\ UNCHANGED <<connected, active_connections, redis_connected, messages,
                   documents, conversations>>

\* last_message = session.exec(statement).first(); ok: the query does not
\* raise.  Nothing around it catches a failure.
QueryStore(s) ==
    /\ ws[s].pc = "query_store"
    /\ \E ok \in BOOLEAN :
          LET last == NewestAssistantMessage(messages, ConversationOf(s))
          IN  IF ~ok
              THEN /\ ws' = [ws EXCEPT ![s] =
                          Upd(@, RaiseOuter("Exception", "query_store"))]
                   /\ obs' = obs
              ELSE IF last # 0
              THEN /\ ws' = [ws EXCEPT ![s] =
                          Upd(@, [last_message_text |-> messages[last].content,
                                  pc |-> "refill_cache"])]
                   /\ obs' = [obs EXCEPT ![s] =
                          Upd(@, [store_reads |-> @.store_reads + 1])]
              ELSE /\ ws' = [ws EXCEPT ![s] = Upd(@, [pc |-> "receive"])]
                   /\ obs' = [obs EXCEPT ![s] =
                          Upd(@, [store_reads |-> @.store_reads + 1] @@
                                 EnterLoop(s, ws[s].last_message_text))]
    /\ UNCHANGED <<connected, active_connections, redis_connected, redis_db,
                   messages, documents, conversations>>

\* await redis_service.store_last_message(conversation_id, last_message_text)
RefillCache(s) ==
    /\ ws[s].pc = "refill_cache"
    /\ \E backend_ok \in BOOLEAN :
          LET r == store_last_message(redis_db, redis_connected,
                                      ConversationOf(s),
                                      ws[s].last_message_text, 0, backend_ok)
              key == _make_key(ConversationOf(s), "last_message")
          IN  /\ redis_db' = r.db
              /\ obs' = [obs EXCEPT ![s] =
                    Upd(@, [refill |-> <<[content |-> ws[s].last_message_text,
                                          ret |-> r.ret,
                                          entry |-> IF key \in DOMAIN r.db
                                                    THEN <<r.db[key]>>
                                                    ELSE <<>>]>>] @@
                           EnterLoop(s, ws[s].last_message_text))]
    /\ ws' = [ws EXCEPT ![s] = Upd(@, [pc |-> "receive"])]
    /\ UNCHANGED <<connected, active_connections, redis_connected, messages,
                   documents, conversations>>

(***************************************************************************)
(* websocket_endpoint: the message loop, up to the accepted message.       *)
(***************************************************************************)
\* json.loads(message_received)
JsonLoads(frame) == [raised |-> ~frame.valid, data |-> frame]

\* The length test written `< 2`: a trimmed length of 2 passes.
ValidateContentOffByOne(message_content) ==
    IF ~Truthy(message_content) THEN "reject"
    ELSE IF ~IsStr(message_content) THEN "raise"
    ELSE IF Len(Strip(message_content)) < 2 THEN "reject"
    ELSE "accept"

\* `not message_content or len(message_content.strip()) <= 2`: "reject",
\* "accept", or "raise" for a value without strip().
ValidateContent(message_content) ==
    IF ~Truthy(message_content) THEN "reject"
    ELSE IF ~IsStr(message_content) THEN "raise"
    ELSE IF Len(Strip(message_content)) <= 2 THEN "reject"
    ELSE "accept"

\* What the frame just read sets in the session.
NewFrame(frame) == [message_received |-> frame, frames |-> <<>>]

\* The loop coming round through the context resolution again.
ContinueResolvesAgain ==
    [pc |-> "get_cached", message_received |-> NotJsonFrame,
     message_content |-> None, message_attachments |-> <<>>,
     message_uuid |-> 0, urls |-> <<>>, response |-> None,
     response_uuid |-> 0]

\* `continue`, or the end of the loop body: back to receive_text.  The
\* locals of the iteration are dead from here on (each is assigned again
\* before it is read) and are put back to their initial values.
Continue ==
    [pc |-> "receive", message_received |-> NotJsonFrame,
     message_content |-> None, message_attachments |-> <<>>,
     message_uuid |-> 0, urls |-> <<>>, response |-> None,
     response_uuid |-> 0]

\* The history kept per frame starts again at each receive_text, and the
\* history of the context resolution is dropped at the first one.
NewReceiveObs ==
    [frame_writes |-> 0, turn_failed |-> FALSE, turn_completed |-> FALSE,
     yielded |-> <<>>, turn_assistant |-> 0, disconnected_mid_turn |-> FALSE,
     cache_reads |-> 0, cache_ret |-> None, store_reads |-> 0,
     refill |-> <<>>, ctx |-> None, cache_present |-> FALSE,
     malformed |-> FALSE,
     trace |-> <<>>, pq_first |-> <<>>, pq_done |-> FALSE,
     title_done |-> FALSE,
     title_entered |-> FALSE, title_due |-> FALSE, title_called |-> FALSE,
     title_raised |-> FALSE, found |-> <<>>, pq_messages |-> <<>>]

\* A frame the inbound contract calls malformed: not JSON, or an object whose
\* "message" is missing, null, blank or at most 2 characters once trimmed.
MalformedFrame(frame) ==
    \/ ~frame.valid
    \/ /\ frame.is_dict
       /\ \/ ~frame.has_message
          \/ frame.message = None
          \/ IsStr(frame.message) /\ Len(Strip(frame.message)) <= 2

NewFrameObs(o, frame) ==
    [frames_read |-> o.frames_read + 1, malformed |-> MalformedFrame(frame)]
    @@ NewReceiveObs

\* message_received = await websocket.receive_text() with a frame waiting,
\* then json.loads, the two .get and the length test.
ReceiveText(s) ==
    /\ ws[s].pc = "receive"
    /\ connected[s]
    /\ ws[s].turns < MaxTurns
    /\ \E frame \in (IF obs[s].attaching THEN AttachmentFrames
                                         ELSE InboundFrames) :
          LET parsed == JsonLoads(frame)
              message_content ==
                  IF frame.has_message THEN frame.message ELSE <<>>
              message_attachments ==
                  IF frame.has_attachments THEN frame.attachments ELSE <<>>
              verdict == ValidateContent(message_content)
              common == [turns |-> ws[s].turns + 1] @@ NewFrame(frame)
          IN
          /\ ws' = [ws EXCEPT ![s] =
                IF parsed.raised
                THEN Upd(@, [pc |-> "send_invalid_format"] @@ common)
                ELSE IF ~frame.is_dict
                THEN Upd(@, RaiseOuter("Exception", "parse") @@ common)
                ELSE IF verdict = "raise"
                THEN Upd(@, RaiseOuter("Exception", "parse") @@ common)
                ELSE IF verdict = "reject"
                THEN Upd(@, [pc |-> "send_required",
                             message_content |-> message_content,
                             message_attachments |-> message_attachments]
                            @@ common)
                ELSE Upd(@, [pc |-> "typing_start",
                             message_content |-> message_content,
                             message_attachments |-> message_attachments]
                            @@ common)]
          /\ obs' = [obs EXCEPT ![s] = Upd(@, NewFrameObs(@, frame))]
    /\ UNCHANGED <<connected, active_connections, redis_connected, redis_db,
                   messages, documents, conversations>>

\* await websocket.receive_text() with the peer gone: WebSocketDisconnect.
ReceiveDisconnect(s) ==
    /\ ws[s].pc = "receive"
    /\ ~connected[s]
    /\ ws' = [ws EXCEPT ![s] =
            Upd(@, RaiseOuter("WebSocketDisconnect", "receive") @@
                   [frames |-> <<>>])]
    /\ obs' = [obs EXCEPT ![s] = Upd(@, NewReceiveObs)]
    /\ UNCHANGED <<connected, active_connections, redis_connected, redis_db,
                   messages, documents, conversations>>

\* A send outside the turn's try block: a failure leaves the loop.
SendOutside(s, frame, next) ==
    /\ \E out \in TransportOutcomes(s) :
          ws' = [ws EXCEPT ![s] =
                IF out = "ok"
                THEN Upd(@, [frames |-> Append(@.frames, frame)] @@ next)
                ELSE Upd(@, RaiseOuter(out, "send"))]
    /\ UNCHANGED <<connected, active_connections, redis_connected, redis_db,
                   messages, documents, conversations, obs>>

\* await manager.send_personal_message("Invalid message format", ...); continue
SendInvalidFormat(s) ==
    /\ ws[s].pc = "send_invalid_format"
    /\ SendOutside(s, PlainText("Invalid message format"), Continue)

\* await manager.send_personal_message("Message content is required", ...)
SendRequired(s) ==
    /\ ws[s].pc = "send_required"
    /\ SendOutside(s, PlainText("Message content is required"), Continue)

\* await typing_indicator(True, websocket)
TypingStart(s) ==
    /\ ws[s].pc = "typing_start"
    /\ SendOutside(s, TypingFrame(TRUE), [pc |-> "persist_user"])

(***************************************************************************)
(* websocket_endpoint: one turn, inside `try: ... except Exception`.       *)
(***************************************************************************)
\* An exception raised inside the turn's try block; the suspended
\* process_query generator is dropped with it.
RaiseInner ==
    [pc |-> "except_turn", pq_response |-> <<>>, pq_idx |-> 0,
     pq_message |-> None]

\* A send inside the turn's try block: a failure is caught by the turn.
SendInside(s, frame, next, o) ==
    \E out \in TransportOutcomes(s) :
        IF out = "ok"
        THEN /\ ws' = [ws EXCEPT ![s] =
                    Upd(@, [frames |-> Append(@.frames, frame)] @@ next)]
             /\ obs' = [obs EXCEPT ![s] = Upd(@, o)]
        ELSE /\ ws' = [ws EXCEPT ![s] = Upd(@, RaiseInner)]
             /\ obs' = [obs EXCEPT ![s] = Upd(@, [turn_failed |-> TRUE])]

\* message = Message(role="user", ...); session.add; session.commit
PersistUser(s) ==
    /\ ws[s].pc = "persist_user"
    /\ \E ok \in BOOLEAN :
          IF ok
          THEN /\ messages' = InsertMessage(messages, ConversationOf(s), "user",
                                            ws[s].message_content)
               /\ ws' = [ws EXCEPT ![s] =
                      Upd(@, [message_uuid |-> Len(messages) + 1,
                              pc |-> "ack_user"])]
               /\ obs' = [obs EXCEPT ![s] =
                      Upd(@, [persisted |-> @.persisted + 1,
                              frame_writes |-> @.frame_writes + 1])]
          ELSE /\ messages' = messages
               /\ ws' = [ws EXCEPT ![s] = Upd(@, RaiseInner)]
               /\ obs' = [obs EXCEPT ![s] = Upd(@, [turn_failed |-> TRUE])]
    /\ UNCHANGED <<connected, active_connections, redis_connected, redis_db,
                   documents, conversations>>

\* The user Message acknowledged only after the assistant texts: nothing is
\* sent here.
AckUserMissing(s) ==
    /\ ws[s].pc = "ack_user"
    /\ ws' = [ws EXCEPT ![s] = Upd(@, [pc |-> "attachments"])]
    /\ UNCHANGED <<connected, active_connections, redis_connected, redis_db,
                   messages, documents, conversations, obs>>

\* await manager.send_personal_message(message.dict(), websocket)
AckUser(s) ==
    /\ ws[s].pc = "ack_user"
    /\ SendInside(s, MessageDict(messages[ws[s].message_uuid]),
                  [pc |-> "attachments"], <<>>)
    /\ UNCHANGED <<connected, active_connections, redis_connected, redis_db,
                   messages, documents, conversations>>

\* os.getenv("API_BASE_URL"): unset, or the base of the documents API.
ApiBaseUrls == {None, <<"https://api">>}

\* The token of the session's caller.
TokenOf(s) == "token"

\* get_document_download_url(doc, token):
\* f"{api_base_path}/api/documents/{document.id}/download?access_token={token}"
\* as the pieces it is put together from; None without API_BASE_URL.
DownloadUrl(api_base_path, id, token) ==
    IF ~Truthy(api_base_path) THEN None
    ELSE api_base_path \o <<"/api/documents/", id,
                            "/download?access_token=", token>>

\* get_document_by_id: session.get(Documents, attachment_id), None (0 here,
\* ids are positive) for an id with no row and for a lookup that raises.
get_document_by_id(attachment_id, ok) ==
    IF ok /\ attachment_id \in DocumentIds THEN attachment_id ELSE 0

NotNoneKeepsAll(docs) == docs

\* [d for d in documents if d is not None]
NotNone(docs) == SelectSeq(docs, LAMBDA d : d # 0)

\* The attachment block: look every id up, then for each Document found
\* append its URL, set its message_uuid and commit.  oks: the positions of
\* the list whose lookup does not raise; failing: the commit that raises,
\* 0 for none.
ResolveAttachments(s) ==
    /\ ws[s].pc = "attachments"
    /\ LET ids == ws[s].message_attachments
       IN  \E oks \in SUBSET DOMAIN ids, api_base_path \in ApiBaseUrls :
             LET found == NotNone([i \in DOMAIN ids |->
                                     get_document_by_id(ids[i], i \in oks)])
             IN  \E failing \in 0 .. Len(found) :
                   LET done == IF failing = 0 THEN Len(found) ELSE failing - 1
                       seen == IF failing = 0 THEN Len(found) ELSE failing
                       bound == { found[i] : i \in 1 .. done }
                   IN  /\ documents' =
                              [d \in DocumentIds |->
                                  IF d \in bound THEN ws[s].message_uuid
                                  ELSE documents[d]]
                       /\ ws' = [ws EXCEPT ![s] =
                              Upd(@, [urls |-> [i \in 1 .. seen |->
                                                   DownloadUrl(api_base_path,
                                                               found[i],
                                                               TokenOf(s))]] @@
                                     (IF failing = 0
                                      THEN [pc |-> "process_query"]
                                      ELSE RaiseInner))]
                       /\ obs' = [obs EXCEPT ![s] =
                              Upd(@, [frame_writes |-> @.frame_writes + done,
                                      turn_failed |-> failing # 0,
                                      found |-> found])]
    /\ UNCHANGED <<connected, active_connections, redis_connected, redis_db,
                   messages, conversations>>

(***************************************************************************)
(* StreamableHTTPClient.process_query, an async generator driven by the    *)
(* turn's `async for`.                                                     *)
(***************************************************************************)
Text(text) == [type |-> "text", text |-> text]
ToolUse == [type |-> "tool_use", text |-> None]

\* response.content of the first provider call
ProviderResponses ==
    { <<>>,
      <<Text(<<"r">>)>>,
      <<Text(<<>>)>>,
      <<Text(<<"r">>), Text(<<"s">>)>>,
      <<ToolUse, Text(<<"r">>)>>,
      <<Text(<<"r">>), ToolUse>>,
      <<ToolUse, ToolUse>> }

\* The provider asks only for tools it was offered.
Offered(tools) ==
    { r \in ProviderResponses :
        tools = <<>> => \A i \in DOMAIN r : r[i].type = "text" }

\* response.content of a follow-up provider call
FollowUpResponses ==
    { <<>>,
      <<Text(<<"s">>)>>,
      <<Text(<<>>)>>,
      <<ToolUse, Text(<<"s">>)>> }

\* The tools the MCP server lists.
ToolCatalog == <<"t1">>

\* One step of a turn, as the turn's history keeps it: a call of list_tools
\* (n: tools returned), of anthropic.messages.create (n: tools passed, -1
\* for no `tools` argument), of call_tool (n: the segment), a text yielded
\* (n: the segment, one past the last for the retained follow-up text), a
\* commit of an assistant Message, a cache store, an acknowledgement sent.
\* ok: the call did not raise (for the cache store: it returned True).
\* text: the text yielded, committed, stored or sent; for a follow-up call
\* of create, the text its response leads with.
Ev(op, text, n, ok) == [op |-> op, text |-> text, n |-> n, ok |-> ok]

\* The steps of a turn are kept only where the specification asks for them.
Hist(o, kept) == IF o.tracing THEN kept ELSE <<>>

Log(o, evs) == Hist(o, [trace |-> o.trace \o evs])

\* list_tools letting the failure of session.list_tools through.
list_tools_raises(ok) ==
    [raised |-> ~ok, tools |-> IF ok THEN ToolCatalog ELSE <<>>]

\* StreamableHTTPClient.list_tools: a failure gives an empty catalog.
list_tools(ok) ==
    [raised |-> FALSE, tools |-> IF ok THEN ToolCatalog ELSE <<>>]

\* The content of the turn that seeds the exchange when there is no prior
\* context.
PrimingText ==
    <<"You are a health and nutrition expert. Use the tools of healthy-server to assist users with their dietary needs and health-related inquiries. Provide accurate and helpful information based on the user's questions and the data available through the tools.">>

TextBlock(text) == [type |-> "text", text |-> text]
ImageBlock(url) == [type |-> "image", source |-> [type |-> "url", url |-> url]]

\* The prior context handed on as a turn of the user.
InitialMessagesContextAsUser(user_message, last_message, document_urls) ==
    << [role |-> "user",
        content |-> IF Truthy(last_message) THEN last_message
                    ELSE PrimingText],
       [role |-> "user",
        content |-> <<TextBlock(user_message)>> \o
                    [i \in DOMAIN document_urls |->
                        ImageBlock(document_urls[i])]] >>

\* `messages` as process_query builds it before the first provider call:
\* the seed, then the user's turn with one image block per URL.
InitialMessages(user_message, last_message, document_urls) ==
    LET document_sources == [i \in DOMAIN document_urls |->
                                ImageBlock(document_urls[i])]
    IN  << IF Truthy(last_message)
           THEN [role |-> "assistant", content |-> last_message]
           ELSE [role |-> "user", content |-> PrimingText],
           [role |-> "user",
            content |-> <<TextBlock(user_message)>> \o document_sources] >>

\* The history a session with attachments keeps of the provider's input.
Sent(o, kept) == IF o.attaching THEN kept ELSE <<>>

\* Up to the first provider call: the session test, list_tools and
\* anthropic.messages.create(tools=available_tools), which nothing in
\* process_query catches.
ProcessQueryStart(s) ==
    /\ ws[s].pc = "process_query"
    /\ IF ~ws[s].mcp_session
       THEN /\ ws' = [ws EXCEPT ![s] = Upd(@, RaiseInner)]
            /\ obs' = [obs EXCEPT ![s] = Upd(@, [turn_failed |-> TRUE])]
       ELSE \E list_ok \in BOOLEAN, provider_ok \in BOOLEAN :
              LET listed == list_tools(list_ok)
                  available_tools == listed.tools
                  built == [pq_messages |->
                               InitialMessages(ws[s].message_content,
                                               ws[s].last_message_text,
                                               ws[s].urls)]
                  calls == <<Ev("list_tools", None, Len(available_tools),
                                list_ok)>>
                           \o (IF listed.raised THEN <<>>
                               ELSE <<Ev("create", None, Len(available_tools),
                                         provider_ok)>>)
              IN
              IF listed.raised \/ ~provider_ok
              THEN /\ ws' = [ws EXCEPT ![s] = Upd(@, RaiseInner)]
                   /\ obs' = [obs EXCEPT ![s] =
                          Upd(@, [turn_failed |-> TRUE] @@ Log(@, calls)
                                 @@ Sent(@, built))]
              ELSE \E response \in Offered(available_tools) :
                     /\ ws' = [ws EXCEPT ![s] =
                            Upd(@, [pq_response |-> response, pq_idx |-> 1,
                                    pq_message |-> None, pc |-> "pq_next"])]
                     /\ obs' = [obs EXCEPT ![s] =
                            Upd(@, Hist(@, [pq_first |-> response]) @@
                                   Log(@, calls) @@ Sent(@, built))]
    /\ UNCHANGED <<connected, active_connections, redis_connected, redis_db,
                   messages, documents, conversations>>

\* The generator hands `text` to the turn: `if response is None: continue`,
\* else the turn goes on to persist it.
Yield(s, text, idx) ==
    /\ ws' = [ws EXCEPT ![s] =
            Upd(@, [response |-> text, pq_idx |-> idx,
                    pc |-> IF text = None THEN "pq_next"
                           ELSE "persist_assistant"])]
    /\ obs' = [obs EXCEPT ![s] =
            Upd(@, [yielded |-> Append(@.yielded, text)] @@
                   Log(@, <<Ev("yield", text, idx - 1, TRUE)>>))]

\* The loop passing over a text segment that is empty.
PQTextSkipsEmpty(s) ==
    /\ ws[s].pc = "pq_next"
    /\ ws[s].pq_idx <= Len(ws[s].pq_response)
    /\ ws[s].pq_response[ws[s].pq_idx].type = "text"
    /\ IF Truthy(ws[s].pq_response[ws[s].pq_idx].text)
       THEN Yield(s, ws[s].pq_response[ws[s].pq_idx].text, ws[s].pq_idx + 1)
       ELSE /\ ws' = [ws EXCEPT ![s] = Upd(@, [pq_idx |-> @.pq_idx + 1])]
            /\ obs' = obs
    /\ UNCHANGED <<connected, active_connections, redis_connected, redis_db,
                   messages, documents, conversations>>

\* for content in response.content: a text segment is yielded at once.
PQText(s) ==
    /\ ws[s].pc = "pq_next"
    /\ ws[s].pq_idx <= Len(ws[s].pq_response)
    /\ ws[s].pq_response[ws[s].pq_idx].type = "text"
    /\ Yield(s, ws[s].pq_response[ws[s].pq_idx].text, ws[s].pq_idx + 1)
    /\ UNCHANGED <<connected, active_connections, redis_connected, redis_db,
                   messages, documents, conversations>>

\* The follow-up call passing the tool catalog again.
FollowUpCreateWithTools(provider_ok, leading) ==
    Ev("create", IF provider_ok THEN leading ELSE None, Len(ToolCatalog),
       provider_ok)

\* response = anthropic.messages.create(model, max_tokens, messages): the
\* follow-up call has no `tools` argument.  leading: the text its response
\* leads with.
FollowUpCreate(provider_ok, leading) ==
    Ev("create", IF provider_ok THEN leading ELSE None, -1, provider_ok)

\* `response.content and response.content[0].type == "text"`: the text the
\* response leads with, None when it leads with none.
LeadingText(response) ==
    IF response # <<>> /\ response[1].type = "text" THEN response[1].text
    ELSE None

\* `message` keeping the first leading text it was given.
RetainFirst(message, leading) ==
    IF message # None THEN message ELSE IF leading # None THEN leading ELSE message

\* `if response.content and response.content[0].type == "text":
\*      message = response.content[0].text`
Retain(message, leading) == IF leading # None THEN leading ELSE message

\* The tool_use branch without its try block.
ToolUseUncaught == "raise"

\* `except Exception as e: ... continue` around call_tool and the follow-up
\* call.
ToolUseExcept == "continue"

\* The loop going on with the segments of the follow-up response.
ForContentRebound(content, idx, response) ==
    [pq_response |-> response, pq_idx |-> 1]

\* `for content in response.content:` walks the list it was started on; the
\* assignment to `response` after a follow-up call does not change it.
ForContent(content, idx, response) ==
    [pq_response |-> content, pq_idx |-> idx + 1]

\* A tool_use segment: call_tool, then one provider call without tools; the
\* follow-up's leading text becomes `message`.  An exception from either
\* call is caught here and the loop goes on.
PQToolUse(s) ==
    /\ ws[s].pc = "pq_next"
    /\ ws[s].pq_idx <= Len(ws[s].pq_response)
    /\ ws[s].pq_response[ws[s].pq_idx].type = "tool_use"
    /\ \E tool_ok \in BOOLEAN, provider_ok \in BOOLEAN :
       \E response \in FollowUpResponses :
          LET leading == LeadingText(response)
              raised == ~tool_ok \/ ~provider_ok
              calls == <<Ev("call_tool", None, ws[s].pq_idx, tool_ok)>>
                       \o (IF tool_ok
                           THEN <<FollowUpCreate(provider_ok, leading)>>
                           ELSE <<>>)
          IN
          /\ ws' = [ws EXCEPT ![s] =
                IF raised /\ ToolUseExcept = "raise" THEN Upd(@, RaiseInner)
                ELSE IF raised THEN Upd(@, [pq_idx |-> @.pq_idx + 1])
                ELSE Upd(@, [pq_message |-> Retain(@.pq_message, leading)] @@
                            ForContent(@.pq_response, @.pq_idx, response))]
          /\ obs' = [obs EXCEPT ![s] =
                Upd(@, (IF raised /\ ToolUseExcept = "raise"
                        THEN [turn_failed |-> TRUE] ELSE <<>>) @@
                       Log(@, calls))]
    /\ UNCHANGED <<connected, active_connections, redis_connected, redis_db,
                   messages, documents, conversations>>

\* After the segments: `if message: yield message`.
PQFinalYield(s) ==
    /\ ws[s].pc = "pq_next"
    /\ ws[s].pq_idx = Len(ws[s].pq_response) + 1
    /\ Truthy(ws[s].pq_message)
    /\ Yield(s, ws[s].pq_message, ws[s].pq_idx + 1)
    /\ UNCHANGED <<connected, active_connections, redis_connected, redis_db,
                   messages, documents, conversations>>

\* The `async for` ends and the title step is left to run on its own.
PQEndTitleDetached(s) ==
    /\ ws[s].pc = "pq_next"
    /\ \/ ws[s].pq_idx = Len(ws[s].pq_response) + 2
       \/ /\ ws[s].pq_idx = Len(ws[s].pq_response) + 1
          /\ ~Truthy(ws[s].pq_message)
    /\ ws' = [ws EXCEPT ![s] =
            Upd(@, [pq_response |-> <<>>, pq_idx |-> 0, pq_message |-> None,
                    pc |-> "typing_stop"])]
    /\ obs' = [obs EXCEPT ![s] = Upd(@, Hist(@, [pq_done |-> TRUE]))]
    /\ UNCHANGED <<connected, active_connections, redis_connected, redis_db,
                   messages, documents, conversations>>

\* The generator returns and the `async for` ends.
PQEnd(s) ==
    /\ ws[s].pc = "pq_next"
    /\ \/ ws[s].pq_idx = Len(ws[s].pq_response) + 2
       \/ /\ ws[s].pq_idx = Len(ws[s].pq_response) + 1
          /\ ~Truthy(ws[s].pq_message)
    /\ ws' = [ws EXCEPT ![s] =
            Upd(@, [pq_response |-> <<>>, pq_idx |-> 0, pq_message |-> None,
                    pc |-> "title"])]
    /\ obs' = [obs EXCEPT ![s] = Upd(@, Hist(@, [pq_done |-> TRUE]))]
    /\ UNCHANGED <<connected, active_connections, redis_connected, redis_db,
                   messages, documents, conversations>>

(***************************************************************************)
(* websocket_endpoint: the body of the `async for`, and the turn's end.    *)
(***************************************************************************)
\* The assistant Message built with the user's text: content=message_content.
PersistAssistantUserContent(s) ==
    /\ ws[s].pc = "persist_assistant"
    /\ messages' = InsertMessage(messages, ConversationOf(s), "assistant",
                                 ws[s].message_content)
    /\ ws' = [ws EXCEPT ![s] =
            Upd(@, [response_uuid |-> Len(messages) + 1,
                    last_message_text |-> ws[s].message_content,
                    pc |-> "cache_store"])]
    /\ obs' = [obs EXCEPT ![s] =
            Upd(@, [persisted |-> @.persisted + 1,
                    frame_writes |-> @.frame_writes + 1,
                    turn_assistant |-> @.turn_assistant + 1] @@
                   Log(@, <<Ev("commit", ws[s].message_content, 0, TRUE)>>))]
    /\ UNCHANGED <<connected, active_connections, redis_connected, redis_db,
                   documents, conversations>>

\* response_message = Message(role="assistant", content=response); commit;
\* last_message_text = response_message.content
PersistAssistant(s) ==
    /\ ws[s].pc = "persist_assistant"
    /\ \E ok \in BOOLEAN :
          IF ok
          THEN /\ messages' = InsertMessage(messages, ConversationOf(s),
                                            "assistant", ws[s].response)
               /\ ws' = [ws EXCEPT ![s] =
                      Upd(@, [response_uuid |-> Len(messages) + 1,
                              last_message_text |-> ws[s].response,
                              pc |-> "cache_store"])]
               /\ obs' = [obs EXCEPT ![s] =
                      Upd(@, [persisted |-> @.persisted + 1,
                              frame_writes |-> @.frame_writes + 1,
                              turn_assistant |-> @.turn_assistant + 1,
                              assistant_persisted |->
                                  @.assistant_persisted + 1] @@
                             Log(@, <<Ev("commit", ws[s].response, 0, TRUE)>>))]
          ELSE /\ messages' = messages
               /\ ws' = [ws EXCEPT ![s] = Upd(@, RaiseInner)]
               /\ obs' = [obs EXCEPT ![s] =
                      Upd(@, [turn_failed |-> TRUE] @@
                             Log(@, <<Ev("commit", ws[s].response, 0, FALSE)>>))]
    /\ UNCHANGED <<connected, active_connections, redis_connected, redis_db,
                   documents, conversations>>

\* The cache store letting the Redis failure through to the turn.
CacheStoreRaises(s) ==
    /\ ws[s].pc = "cache_store"
    /\ \E backend_ok \in BOOLEAN :
          LET r == store_last_message(redis_db, redis_connected,
                                      ConversationOf(s),
                                      ws[s].last_message_text, 0, backend_ok)
          IN  /\ redis_db' = r.db
              /\ obs' = [obs EXCEPT ![s] =
                    Upd(@, [frame_writes |->
                               @.frame_writes + (IF r.ret THEN 1 ELSE 0),
                            turn_failed |-> ~r.ret] @@
                           Log(@, <<Ev("store_last_message",
                                       ws[s].last_message_text, 0, r.ret)>>))]
              /\ ws' = [ws EXCEPT ![s] =
                    IF r.ret THEN Upd(@, [pc |-> "ack_assistant"])
                    ELSE Upd(@, RaiseInner)]
    /\ UNCHANGED <<connected, active_connections, redis_connected, messages,
                   documents, conversations>>

\* redis_stored = await redis_service.store_last_message(...)
CacheStore(s) ==
    /\ ws[s].pc = "cache_store"
    /\ \E backend_ok \in BOOLEAN :
          LET r == store_last_message(redis_db, redis_connected,
                                      ConversationOf(s),
                                      ws[s].last_message_text, 0, backend_ok)
          IN  /\ redis_db' = r.db
              /\ obs' = [obs EXCEPT ![s] =
                    Upd(@, [frame_writes |->
                               @.frame_writes + (IF r.ret THEN 1 ELSE 0)] @@
                           Log(@, <<Ev("store_last_message",
                                       ws[s].last_message_text, 0, r.ret)>>))]
    /\ ws' = [ws EXCEPT ![s] = Upd(@, [pc |-> "ack_assistant"])]
    /\ UNCHANGED <<connected, active_connections, redis_connected, messages,
                   documents, conversations>>

\* The acknowledgements kept back until process_query has returned: nothing
\* is sent here.
AckAssistantDeferred(s) ==
    /\ ws[s].pc = "ack_assistant"
    /\ ws' = [ws EXCEPT ![s] = Upd(@, [pc |-> "pq_next"])]
    /\ UNCHANGED <<connected, active_connections, redis_connected, redis_db,
                   messages, documents, conversations, obs>>

\* await manager.send_personal_message(response_message.dict(), websocket)
AckAssistant(s) ==
    /\ ws[s].pc = "ack_assistant"
    /\ SendInside(s, MessageDict(messages[ws[s].response_uuid]),
                  [pc |-> "pq_next"],
                  [assistant_acked |-> obs[s].assistant_acked + 1] @@
                  Log(obs[s], <<Ev("send", messages[ws[s].response_uuid].content,
                                   0, TRUE)>>))
    /\ UNCHANGED <<connected, active_connections, redis_connected, redis_db,
                   messages, documents, conversations>>

\* getattr on a Conversation row
HasAttribute(name) == name \in ConversationFields

\* StreamableHTTPClient.process_conversation_title_query: the text the
\* response leads with; None when it leads with none and when the call
\* raises.
process_conversation_title_query(ok, response) ==
    IF ok THEN LeadingText(response) ELSE None

\* conversation = session.get(Conversation, conversation_id), the test of
\* line 232 and the block under it.  Conversation has no attribute `title`:
\* once last_message_text and the row are both truthy the third operand
\* raises AttributeError.  With the attribute, an untitled conversation gets
\* the title call, the new title (the sentinel when the call gave none) and
\* last_message are committed and the update-conversation frame is sent.
\* get_ok, commit_ok: session.get, session.commit do not raise.
GenerateTitle(s) ==
    /\ ws[s].pc = "title"
    /\ \E get_ok \in BOOLEAN :
          LET id == ConversationOf(s)
              conversation == id \in DOMAIN conversations
              entered == get_ok /\ Truthy(ws[s].last_message_text)
                                /\ conversation
              due == entered /\ conversations[id].title \in UntitledTitles
              called == due /\ HasAttribute("title")
              history == [title_entered |-> entered, title_due |-> due,
                          title_called |-> called,
                          title_calls |-> obs[s].title_calls +
                                          (IF called THEN 1 ELSE 0)]
          IN  IF ~called
              THEN LET raises == ~get_ok \/ (entered /\ ~HasAttribute("title"))
                   IN  /\ conversations' = conversations
                       /\ ws' = [ws EXCEPT ![s] =
                              IF raises THEN Upd(@, RaiseInner)
                              ELSE Upd(@, [pc |-> "typing_stop"])]
                       /\ obs' = [obs EXCEPT ![s] =
                              Upd(@, [turn_failed |-> raises,
                                      title_raised |-> raises /\ get_ok]
                                     @@ history
                                     @@ Hist(@, [title_done |-> ~raises]))]
              ELSE \E title_ok \in BOOLEAN, commit_ok \in BOOLEAN :
                   \E response \in FollowUpResponses :
                   \E out \in TransportOutcomes(s) :
                     LET conversation_title ==
                             process_conversation_title_query(title_ok,
                                                              response)
                         raises == ~commit_ok \/ out # "ok"
                     IN  /\ conversations' =
                               IF commit_ok
                               THEN [conversations EXCEPT ![id] =
                                       [title |->
                                           IF Truthy(conversation_title)
                                           THEN conversation_title
                                           ELSE NewConversation,
                                        last_message |->
                                           ws[s].last_message_text]]
                               ELSE conversations
                         /\ ws' = [ws EXCEPT ![s] =
                               IF raises THEN Upd(@, RaiseInner)
                               ELSE Upd(@, [pc |-> "typing_stop",
                                            frames |->
                                               Append(@.frames,
                                                      UpdateConversationFrame)])]
                         /\ obs' = [obs EXCEPT ![s] =
                               Upd(@, [turn_failed |-> raises,
                                       title_raised |-> raises] @@ history
                                      @@ Hist(@, [title_done |-> ~raises]))]
    /\ UNCHANGED <<connected, active_connections, redis_connected, redis_db,
                   messages, documents>>

\* await typing_indicator(False, websocket), the last statement of the try
TypingStop(s) ==
    /\ ws[s].pc = "typing_stop"
    /\ SendInside(s, TypingFrame(FALSE), Continue, [turn_completed |-> TRUE])
    /\ UNCHANGED <<connected, active_connections, redis_connected, redis_db,
                   messages, documents, conversations>>

\* The handler raising the exception again instead of reporting it.
ExceptTurnReraises(s) ==
    /\ ws[s].pc = "except_turn"
    /\ ws' = [ws EXCEPT ![s] = Upd(@, RaiseOuter("Exception", "turn"))]
    /\ UNCHANGED <<connected, active_connections, redis_connected, redis_db,
                   messages, documents, conversations, obs>>

\* except Exception as e: send {"type": "error", "message": str(e)}
ExceptTurn(s) ==
    /\ ws[s].pc = "except_turn"
    /\ SendOutside(s, ErrorFrame, [pc |-> "except_typing_stop"])

\* The handler going back to receive_text without typing_indicator(False).
ExceptTypingStopMissing(s) ==
    /\ ws[s].pc = "except_typing_stop"
    /\ ws' = [ws EXCEPT ![s] = Upd(@, Continue)]
    /\ UNCHANGED <<connected, active_connections, redis_connected, redis_db,
                   messages, documents, conversations, obs>>

\* ... then typing_indicator(False, websocket); continue
ExceptTypingStop(s) ==
    /\ ws[s].pc = "except_typing_stop"
    /\ SendOutside(s, TypingFrame(FALSE), Continue)

(***************************************************************************)
(* websocket_endpoint: the outer handlers and the finally block.           *)
(***************************************************************************)
\* list.remove: the first occurrence
RECURSIVE Remove(_, _)
Remove(list, x) ==
    IF list = <<>> THEN <<>>
    ELSE IF Head(list) = x THEN Tail(list)
    ELSE <<Head(list)>> \o Remove(Tail(list), x)

InList(list, x) == \E i \in DOMAIN list : list[i] = x

\* disconnect taking the last connection off the list.
ManagerDisconnectLast(list, websocket) ==
    IF list = <<>> THEN list ELSE SubSeq(list, 1, Len(list) - 1)

\* ConnectionManager.disconnect
ManagerDisconnect(list, websocket) ==
    IF InList(list, websocket) THEN Remove(list, websocket) ELSE list

\* ConnectionManager.broadcast from position i: `for connection in
\* self.active_connections` walks the list by index while a failed send
\* removes its connection from that same list.  failing: the connections
\* whose send raises.
RECURSIVE Broadcast(_, _, _)
Broadcast(list, i, failing) ==
    IF i > Len(list) THEN list
    ELSE IF list[i] \in failing
    THEN Broadcast(ManagerDisconnect(list, list[i]), i + 1, failing)
    ELSE Broadcast(list, i + 1, failing)

\* The connections broadcast calls send_text on, in order, by the same walk.
RECURSIVE Attempted(_, _, _)
Attempted(list, i, failing) ==
    IF i > Len(list) THEN <<>>
    ELSE <<list[i]>> \o
         (IF list[i] \in failing
          THEN Attempted(ManagerDisconnect(list, list[i]), i + 1, failing)
          ELSE Attempted(list, i + 1, failing))

\* except WebSocketDisconnect: manager.disconnect, manager.broadcast
\* except Exception: manager.disconnect
\* The history keeps the list broadcast was called on, the connections it
\* sent to and those whose send raised.
ExceptOuter(s) ==
    /\ ws[s].pc = "except_outer"
    /\ LET left == ManagerDisconnect(active_connections, s)
           gone == { c \in DOMAIN connected : InList(left, c) /\ ~connected[c] }
       IN  IF ws[s].exc = "WebSocketDisconnect"
           THEN \E failing \in SUBSET gone :
                   /\ active_connections' = Broadcast(left, 1, failing)
                   /\ obs' = [obs EXCEPT ![s] =
                         Upd(@, [broadcast |->
                                   <<[to |-> left,
                                      attempted |-> Attempted(left, 1, failing),
                                      failing |-> failing]>>])]
           ELSE /\ active_connections' = left
                /\ obs' = obs
    /\ ws' = [ws EXCEPT ![s] = Upd(@, [pc |-> "finally", exc |-> ""])]
    /\ UNCHANGED <<connected, redis_connected, redis_db, messages, documents,
                   conversations>>

\* Cleanup only for a client whose MCP session was established.
ClientHasSession(s) == ws[s].mcp_session

\* `if 'client' in locals()`
ClientInLocals(s) == ws[s].client = "bound"

\* finally: if 'client' in locals(): await client.cleanup().  cleanup closes
\* the exit stack and raises again what that raises; either way the handler
\* is over.
Finally(s) ==
    /\ ws[s].pc = "finally"
    /\ ws' = [ws EXCEPT ![s] =
            Upd(InitLocals, [pc |-> "done", client |-> @.client,
                             exc_at |-> @.exc_at, frames |-> @.frames])]
    /\ obs' = [obs EXCEPT ![s] =
            Upd(@, [cleanups |-> @.cleanups + (IF ClientInLocals(s) THEN 1 ELSE 0),
                    returned |-> TRUE])]
    /\ UNCHANGED <<connected, active_connections, redis_connected, redis_db,
                   messages, documents, conversations>>

(***************************************************************************)
(* The specification of one session.                                       *)
(***************************************************************************)
Session(s) ==
    \/ Connect(s) \/ CreateClient(s)
    \/ GetCached(s) \/ QueryStore(s) \/ RefillCache(s)
    \/ ReceiveText(s) \/ ReceiveDisconnect(s)
    \/ SendInvalidFormat(s) \/ SendRequired(s) \/ TypingStart(s)
    \/ PersistUser(s) \/ AckUser(s) \/ ResolveAttachments(s)
    \/ ProcessQueryStart(s) \/ PQText(s) \/ PQToolUse(s) \/ PQFinalYield(s)
    \/ PQEnd(s)
    \/ PersistAssistant(s) \/ CacheStore(s) \/ AckAssistant(s)
    \/ GenerateTitle(s) \/ TypingStop(s)
    \/ ExceptTurn(s) \/ ExceptTypingStop(s)
    \/ ExceptOuter(s) \/ Finally(s)
    \/ ClientDisconnect(s)

Next == \E s \in SpecSockets : Session(s)

Spec == Init /\ [][Next]_vars

\* Three clients that connect to one conversation, send nothing and leave;
\* a session can also fail in its setup.
ManagerSockets == {1, 2, 3}

InitManager ==
    /\ ws = [s \in ManagerSockets |-> InitLocals]
    /\ obs = [s \in ManagerSockets |-> InitObs]
    /\ connected = [s \in ManagerSockets |-> TRUE]
    /\ active_connections = <<>>
    /\ redis_connected = TRUE
    /\ messages \in InitialHistories /\ Len(messages) > 1
    /\ redis_db = <<>>
    /\ documents = [d \in DocumentIds |-> 0]
    /\ conversations = <<>>

NextManager ==
    \E s \in ManagerSockets :
        \/ Connect(s) \/ CreateClient(s)
        \/ GetCached(s) \/ QueryStore(s) \/ RefillCache(s)
        \/ ReceiveDisconnect(s)
        \/ ExceptOuter(s) \/ Finally(s)
        \/ ClientDisconnect(s)

SpecManager == InitManager /\ [][NextManager]_vars

\* One session on a conversation that has a history and no cache entry,
\* with the steps of each turn kept.
InitTurn ==
    /\ ws = [s \in Sockets |-> InitLocals]
    /\ obs = [s \in Sockets |-> Upd(InitObs, [tracing |-> TRUE])]
    /\ connected = [s \in Sockets |-> TRUE]
    /\ active_connections = <<>>
    /\ redis_connected \in BOOLEAN
    /\ messages \in InitialHistories /\ Len(messages) > 1
    /\ redis_db = <<>>
    /\ documents = [d \in DocumentIds |-> 0]
    /\ conversations \in InitialConversations

SpecTurn == InitTurn /\ [][Next]_vars

\* One session of a client that sends attachments, on a conversation that
\* has a history and no row in ai_conversations.
InitAttach ==
    /\ ws = [s \in Sockets |-> InitLocals]
    /\ obs = [s \in Sockets |-> Upd(InitObs, [attaching |-> TRUE])]
    /\ connected = [s \in Sockets |-> TRUE]
    /\ active_connections = <<>>
    /\ redis_connected \in BOOLEAN
    /\ messages \in InitialHistories /\ Len(messages) > 1
    /\ redis_db = <<>>
    /\ documents = [d \in DocumentIds |-> 0]
    /\ conversations = <<>>

SpecAttach == InitAttach /\ [][Next]_vars

(***************************************************************************)
(* Properties of the session engine.                                       *)
(***************************************************************************)
Closing == {"except_outer", "finally", "done"}

Last(seq) == seq[Len(seq)]

IsErrorText(frame) ==
    /\ frame.type = "text"
    /\ frame.text \in {"Invalid message format", "Message content is required"}

\* C1: a frame that is not JSON, or whose message is missing, blank or at
\* most 2 characters once trimmed, is answered with an error frame and makes
\* the session write nothing: no Message, no Document update, no cache
\* entry.  (With the peer gone the error frame cannot be sent, and the
\* session closes instead.)
C1_MalformedFrameRejected ==
    \A s \in Sockets :
        obs[s].malformed =>
            /\ obs[s].frame_writes = 0
            /\ \/ ws[s].pc \in {"send_invalid_format", "send_required"}
               \/ /\ ws[s].pc = "receive"
                  /\ Len(ws[s].frames) = 1
                  /\ IsErrorText(ws[s].frames[1])
               \/ /\ ws[s].pc \in Closing
                  /\ ws[s].exc_at = "send"
                  /\ ~connected[s]

C1_Witness ==
    \E s \in Sockets :
        /\ obs[s].malformed
        /\ ws[s].pc = "receive"
        /\ obs[s].frames_read = 2
        /\ ws[s].frames = <<PlainText("Message content is required")>>
        /\ obs[s].persisted = 1

\* C2: after a malformed frame the session stays in the message loop, and
\* the content of a frame alone never ends the loop: the session leaves it
\* only for a transport failure, never for what json.loads and the
\* validation make of a frame.
C2_FrameContentNeverEndsLoop ==
    \A s \in Sockets :
        /\ ws[s].exc_at # "parse"
        /\ obs[s].malformed /\ connected[s] => ws[s].pc \notin Closing

\* C3: an exception raised while an accepted message is processed is caught
\* by the turn: with the peer still there the session sends the error frame
\* and typing-stopped and is back at receive_text.
C3_TurnErrorCaught ==
    \A s \in Sockets :
        obs[s].turn_failed /\ connected[s] =>
            \/ ws[s].pc \in {"except_turn", "except_typing_stop"}
            \/ /\ ws[s].pc = "receive"
               /\ Len(ws[s].frames) >= 3
               /\ ws[s].frames[Len(ws[s].frames) - 1] = ErrorFrame
               /\ Last(ws[s].frames) = TypingFrame(FALSE)

C3_Witness ==
    \E s \in Sockets :
        /\ obs[s].turn_failed
        /\ connected[s]
        /\ ws[s].pc = "receive"
        /\ obs[s].frames_read = 2
        /\ obs[s].turn_assistant = 1

\* C4: once typing-started was sent for a message, its processing does not
\* end without typing-stopped as the last frame, on success and on failure
\* alike; the processing ends otherwise only when a send to a peer that is
\* gone has failed.
TypingStarted(s) ==
    ws[s].frames # <<>> /\ ws[s].frames[1] = TypingFrame(TRUE)

NumberOf(frames, frame) ==
    Cardinality({ i \in DOMAIN frames : frames[i] = frame })

C4_TypingStoppedSent ==
    \A s \in Sockets :
        TypingStarted(s) =>
            /\ ws[s].pc = "receive" =>
                  /\ Last(ws[s].frames) = TypingFrame(FALSE)
                  /\ NumberOf(ws[s].frames, TypingFrame(FALSE)) = 1
            /\ ws[s].pc \in Closing =>
                  ~connected[s] /\ ws[s].exc_at = "send"

C4_Witness ==
    \E s \in Sockets :
        /\ TypingStarted(s)
        /\ ws[s].pc = "receive"
        /\ obs[s].turn_failed
        /\ obs[s].turn_assistant = 2
        /\ Last(ws[s].frames) = TypingFrame(FALSE)

\* C5: the frames of a turn that completed are, in this order: typing-started,
\* the acknowledgement of the user Message, one acknowledgement per text
\* process_query yielded, in the order yielded, at most one
\* update-conversation frame, typing-stopped.
IsAck(frame, role) == frame.type = "message" /\ frame.role = role

C5_FrameOrder ==
    \A s \in Sockets :
        obs[s].turn_completed =>
            LET f == ws[s].frames
                n == Len(obs[s].yielded)
            IN  /\ Len(f) \in {n + 3, n + 4}
                /\ f[1] = TypingFrame(TRUE)
                /\ IsAck(f[2], "user")
                /\ \A i \in 1 .. n :
                      /\ IsAck(f[2 + i], "assistant")
                      /\ f[2 + i].content = obs[s].yielded[i]
                /\ Len(f) = n + 4 => f[n + 3] = UpdateConversationFrame
                /\ Last(f) = TypingFrame(FALSE)

C5_Witness ==
    \E s \in Sockets :
        /\ obs[s].turn_completed
        /\ obs[s].yielded = << <<"r">>, <<"s">> >>
        /\ Len(ws[s].frames) = 5

\* C6: a session that created its tool-catalog client runs the client's
\* cleanup exactly once, whatever ended it, and has run it when the handler
\* returns.
C6_CleanupExactlyOnce ==
    \A s \in Sockets :
        /\ obs[s].cleanups <= 1
        /\ obs[s].cleanups = 1 => ws[s].client = "bound"
        /\ obs[s].returned /\ ws[s].client = "bound" => obs[s].cleanups = 1

C6_Witness ==
    \E s \in Sockets :
        /\ obs[s].returned
        /\ obs[s].cleanups = 1
        /\ obs[s].setup_failed

\* C7: when the connection to the tool catalog fails, the session ends
\* without entering the message loop: it reads no frame, reads neither the
\* cache nor the store and persists no Message.
C7_SetupFailureSkipsLoop ==
    \A s \in Sockets :
        obs[s].setup_failed =>
            /\ ws[s].pc \in Closing
            /\ ~obs[s].loop_entered
            /\ obs[s].frames_read = 0
            /\ obs[s].cache_reads = 0
            /\ obs[s].store_reads = 0
            /\ obs[s].persisted = 0

C7_Witness ==
    \E s \in Sockets :
        /\ obs[s].setup_failed
        /\ ws[s].pc = "done"
        /\ ws[s].exc_at = "connect_to_server"

\* C8: when the peer disconnects after the user Message of a turn was
\* persisted and before the provider call has returned, the session closes
\* once, cleans up once and persists no assistant Message for that turn.
C8_NoPersistenceAfterDisconnect ==
    \A s \in Sockets :
        obs[s].disconnected_mid_turn =>
            /\ obs[s].turn_assistant = 0
            /\ obs[s].cleanups <= 1

AssistantRows(s) ==
    { i \in DOMAIN messages :
        /\ messages[i].conversation_id = ConversationOf(s)
        /\ messages[i].role = "assistant" }

C10_StoreFallbackRefills ==
    \A s \in Sockets :
        (/\ obs[s].loop_entered
         /\ obs[s].frames_read = 0
         /\ ws[s].pc = "receive"
         /\ obs[s].cache_reads = 1
         /\ ~obs[s].cache_present) =>
            LET key == _make_key(ConversationOf(s), "last_message")
            IN  IF AssistantRows(s) = {}
                THEN /\ obs[s].ctx = None
                     /\ obs[s].refill = <<>>
                     /\ key \notin DOMAIN redis_db
                ELSE /\ \E i \in AssistantRows(s) :
                          /\ \A j \in AssistantRows(s) :
                                messages[j].created_at <= messages[i].created_at
                          /\ obs[s].ctx = messages[i].content
                     /\ Len(obs[s].refill) = 1
                     /\ obs[s].refill[1].content = obs[s].ctx
                     /\ obs[s].refill[1].ret =>
                          /\ key \in DOMAIN redis_db
                          /\ redis_db[key].ttl = default_ttl
                          /\ redis_db[key].value.valid
                          /\ redis_db[key].value.content = obs[s].ctx

C10_Witness ==
    \E s \in Sockets :
        /\ obs[s].loop_entered
        /\ obs[s].frames_read = 0
        /\ ~obs[s].cache_present
        /\ obs[s].ctx = <<"r">>
        /\ Len(obs[s].refill) = 1
        /\ obs[s].refill[1].ret
        /\ _make_key(ConversationOf(s), "last_message") \in DOMAIN redis_db

(***************************************************************************)
(* Properties of the context resolution and the cache.                     *)
(***************************************************************************)
\* C11: a failure of the cache or of the store while the context is resolved
\* never ends the session: a session whose setup succeeded does not close
\* before it has entered the message loop.
C11_ContextFailureNeverAborts ==
    \A s \in Sockets :
        (/\ ws[s].pc \in Closing
         /\ ws[s].exc_at \notin {"accept", "connect_to_server"}) =>
            obs[s].loop_entered

\* C12: between turns, an entry the cache holds for a conversation has the
\* content of the assistant Message of the conversation persisted last.
C12_CacheReflectsNewest ==
    \A s \in Sockets :
        LET key == _make_key(ConversationOf(s), "last_message")
        IN  (/\ ws[s].pc \in {"receive", "done"}
             /\ key \in DOMAIN redis_db) =>
                \E i \in AssistantRows(s) :
                    /\ \A j \in AssistantRows(s) :
                          messages[j].created_at <= messages[i].created_at
                    /\ redis_db[key].value.content = messages[i].content

(***************************************************************************)
(* Properties of a turn, over the steps the turn has taken.                *)
(***************************************************************************)
\* C13: each commit of an assistant Message is followed at once by one cache
\* store with the same content, and the cache store, whatever it returns, is
\* followed by the acknowledgement of that Message (unless the peer is gone
\* and the send fails): the cache store never raises into the turn.
C13_CacheStoreFollowsPersist ==
    \A s \in Sockets :
        LET trace == obs[s].trace
        IN  \A i \in DOMAIN trace :
              /\ (trace[i].op = "commit" /\ trace[i].ok) =>
                    IF i = Len(trace) THEN ws[s].pc = "cache_store"
                    ELSE /\ trace[i + 1].op = "store_last_message"
                         /\ trace[i + 1].text = trace[i].text
              /\ trace[i].op = "store_last_message" =>
                    /\ i > 1
                    /\ trace[i - 1].op = "commit" /\ trace[i - 1].ok
                    /\ IF i = Len(trace)
                       THEN ws[s].pc = "ack_assistant" \/ ~connected[s]
                       ELSE /\ trace[i + 1].op = "send"
                            /\ trace[i + 1].text = trace[i].text

C13_Witness ==
    \E s \in Sockets :
        /\ obs[s].turn_completed
        /\ connected[s]
        /\ \E i \in DOMAIN obs[s].trace :
              /\ obs[s].trace[i].op = "store_last_message"
              /\ ~obs[s].trace[i].ok
              /\ i + 2 <= Len(obs[s].trace)
              /\ obs[s].trace[i + 2].op = "yield"

\* The steps of one kind in a turn's history, and the texts yielded.
Steps(s, op) == SelectSeq(obs[s].trace, LAMBDA e : e.op = op)

YieldedTexts(s) == [i \in DOMAIN Steps(s, "yield") |-> Steps(s, "yield")[i].text]

TextsOf(response) ==
    [i \in DOMAIN SelectSeq(response, LAMBDA c : c.type = "text") |->
        SelectSeq(response, LAMBDA c : c.type = "text")[i].text]

ToolUses(response) == Len(SelectSeq(response, LAMBDA c : c.type = "tool_use"))

\* The first provider call of the turn returned a response.
Responded(s) ==
    /\ Len(obs[s].trace) >= 2
    /\ obs[s].trace[2].op = "create" /\ obs[s].trace[2].ok

\* C14: when the first response has only text segments, process_query makes
\* one provider call and no tool call, the texts yielded so far are the first
\* texts of the response in order, and once it has returned they are all the
\* texts of the response, each once.
C14_TextOnlyResponse ==
    \A s \in Sockets :
        (Responded(s) /\ ToolUses(obs[s].pq_first) = 0) =>
            /\ Len(Steps(s, "create")) = 1
            /\ Len(Steps(s, "call_tool")) = 0
            /\ Len(YieldedTexts(s)) <= Len(obs[s].pq_first)
            /\ \A i \in DOMAIN YieldedTexts(s) :
                  YieldedTexts(s)[i] = obs[s].pq_first[i].text
            /\ obs[s].pq_done => YieldedTexts(s) = TextsOf(obs[s].pq_first)

C14_Witness ==
    \E s \in Sockets :
        /\ obs[s].pq_done
        /\ obs[s].pq_first = <<Text(<<"r">>), Text(<<"s">>)>>
        /\ YieldedTexts(s) = << <<"r">>, <<"s">> >>
        /\ Len(Steps(s, "create")) = 1

\* The turn's first response was [tool-use, text] and process_query returned.
ToolThenTextDone(s) ==
    /\ Responded(s)
    /\ obs[s].pq_done
    /\ Len(obs[s].pq_first) = 2
    /\ obs[s].pq_first[1].type = "tool_use"
    /\ obs[s].pq_first[2].type = "text"

\* C15 as stated: for a first response [tool-use, text], process_query calls
\* the tool once, makes one follow-up provider call without tools, yields the
\* response's text and then, last, the follow-up's leading text.
C15_ToolThenTextYieldsFollowUp ==
    \A s \in Sockets :
        ToolThenTextDone(s) =>
            /\ Len(Steps(s, "call_tool")) = 1
            /\ Len(Steps(s, "create")) = 2
            /\ Steps(s, "create")[2].n = -1
            /\ Len(YieldedTexts(s)) = 2
            /\ YieldedTexts(s)[1] = obs[s].pq_first[2].text
            /\ YieldedTexts(s)[2] = Steps(s, "create")[2].text

\* C15, amended: for a first response [tool-use, text], process_query calls
\* the tool once; it makes one follow-up provider call, without tools, when
\* the tool call returned and none when it raised; it yields the response's
\* text; and it yields the follow-up's leading text after it, as the last
\* text, exactly when the follow-up call returned a response that leads with
\* a non-empty text.
C15_ToolThenText ==
    \A s \in Sockets :
        ToolThenTextDone(s) =>
            LET tool == Steps(s, "call_tool")
                create == Steps(s, "create")
                first == obs[s].pq_first[2].text
            IN  /\ Len(tool) = 1
                /\ Len(create) = (IF tool[1].ok THEN 2 ELSE 1)
                /\ Len(create) = 2 => create[2].n = -1
                /\ IF Len(create) = 2 /\ create[2].ok /\ Truthy(create[2].text)
                   THEN YieldedTexts(s) = <<first, create[2].text>>
                   ELSE YieldedTexts(s) = <<first>>

C15_Witness ==
    \E s \in Sockets :
        /\ ToolThenTextDone(s)
        /\ Steps(s, "create")[1].n = Len(ToolCatalog)
        /\ Len(Steps(s, "create")) = 2
        /\ YieldedTexts(s) = << <<"r">>, <<"s">> >>

\* The follow-up calls of the turn whose response led with a text, and the
\* text process_query holds in `message` after them.
Retained(s) ==
    SelectSeq(obs[s].trace,
              LAMBDA e : e.op = "create" /\ e.n = -1 /\ e.ok /\ e.text # None)

RetainedText(s) ==
    IF Retained(s) = <<>> THEN None ELSE Last(Retained(s)).text

\* The texts yielded for segments of the response, and after them.
SegmentYields(s) ==
    SelectSeq(Steps(s, "yield"), LAMBDA e : e.n <= Len(obs[s].pq_first))

FinalYields(s) ==
    SelectSeq(Steps(s, "yield"), LAMBDA e : e.n > Len(obs[s].pq_first))

\* C16: a call_tool that raises is followed by no provider call and leaves
\* the turn running at the next segment; when process_query has returned,
\* every segment of the response was processed (each text yielded, each tool
\* called), and the one text yielded after the segments is the leading text
\* of a follow-up call that returned, never something of the failed tool.
C16_FailedToolSkipped ==
    \A s \in Sockets :
        LET trace == obs[s].trace
            first == obs[s].pq_first
        IN  /\ \A k \in DOMAIN trace :
                  (trace[k].op = "call_tool" /\ ~trace[k].ok) =>
                      IF k = Len(trace)
                      THEN \/ ws[s].pc = "pq_next" /\ ~obs[s].turn_failed
                           \/ obs[s].pq_done
                      ELSE trace[k + 1].op # "create"
            /\ (Responded(s) /\ obs[s].pq_done) =>
                  /\ \A i \in DOMAIN first :
                        \E k \in DOMAIN trace :
                            /\ trace[k].n = i
                            /\ trace[k].op = (IF first[i].type = "text"
                                              THEN "yield" ELSE "call_tool")
                  /\ Len(SegmentYields(s)) = Len(TextsOf(first))
                  /\ Len(Steps(s, "create")) =
                        1 + Len(SelectSeq(Steps(s, "call_tool"),
                                          LAMBDA e : e.ok))
                  /\ IF Truthy(RetainedText(s))
                     THEN /\ Len(FinalYields(s)) = 1
                          /\ FinalYields(s)[1].text = RetainedText(s)
                     ELSE FinalYields(s) = <<>>

C16_Witness ==
    \E s \in Sockets :
        /\ obs[s].pq_done
        /\ obs[s].pq_first = <<ToolUse, ToolUse>>
        /\ ~Steps(s, "call_tool")[1].ok
        /\ Steps(s, "call_tool")[2].ok
        /\ YieldedTexts(s) = << <<"s">> >>

\* C17: a provider call that fails in a turn, the first call or a follow-up
\* call, aborts the turn and is reported in an error frame: process_query
\* does not go on, the turn does not complete, and with the peer there the
\* session sends the error frame and is back at receive_text.
C17_ProviderFailureSurfaced ==
    \A s \in Sockets :
        (\E k \in DOMAIN obs[s].trace :
            obs[s].trace[k].op = "create" /\ ~obs[s].trace[k].ok) =>
            /\ obs[s].turn_failed
            /\ ~obs[s].pq_done
            /\ ~obs[s].turn_completed
            /\ connected[s] =>
                  \/ ws[s].pc \in {"except_turn", "except_typing_stop"}
                  \/ /\ ws[s].pc = "receive"
                     /\ \E i \in DOMAIN ws[s].frames : ws[s].frames[i] = ErrorFrame

\* C18: process_query is bounded by the first response: it calls a tool only
\* for a tool-use segment of that response and once per segment, makes at
\* most one follow-up provider call per such segment, and takes at most one
\* step per segment and one more for the retained text, after which it has
\* returned.
C18_BoundedByFirstResponse ==
    \A s \in Sockets :
        Responded(s) =>
            LET first == obs[s].pq_first
                tool == Steps(s, "call_tool")
            IN  /\ \A i \in DOMAIN tool :
                      /\ tool[i].n \in DOMAIN first
                      /\ first[tool[i].n].type = "tool_use"
                      /\ \A j \in DOMAIN tool : tool[j].n = tool[i].n => j = i
                /\ Len(tool) <= ToolUses(first)
                /\ Len(Steps(s, "create")) <= 1 + Len(tool)
                /\ Len(Steps(s, "create")) <= 1 + ToolUses(first)
                /\ Len(Steps(s, "yield")) + Len(tool) <= Len(first) + 1
                /\ ws[s].pc = "pq_next" =>
                      /\ ws[s].pq_response = first
                      /\ ws[s].pq_idx <= Len(first) + 2

C18_Witness ==
    \E s \in Sockets :
        /\ obs[s].pq_done
        /\ obs[s].pq_first = <<ToolUse, ToolUse>>
        /\ Len(Steps(s, "create")) = 3
        /\ YieldedTexts(s) = << <<"s">> >>
        /\ \E k \in DOMAIN obs[s].trace :
              /\ obs[s].trace[k].op = "create"
              /\ obs[s].trace[k].n = -1
              /\ obs[s].trace[k].ok
              /\ obs[s].trace[k].text = None

\* C19: when list_tools fails inside a turn, the provider is called all the
\* same, with an empty tool list, and the failure does not abort the turn:
\* if the provider call returns, process_query goes on with its response.
C19_CatalogFailureDegrades ==
    \A s \in Sockets :
        LET trace == obs[s].trace
        IN  (trace # <<>> /\ trace[1].op = "list_tools" /\ ~trace[1].ok) =>
                /\ trace[1].n = 0
                /\ Len(trace) >= 2
                /\ trace[2].op = "create"
                /\ trace[2].n = 0
                /\ (trace[2].ok /\ Len(trace) = 2) =>
                      \/ ws[s].pc = "pq_next" /\ ~obs[s].turn_failed
                      \/ obs[s].pq_done

C19_Witness ==
    \E s \in Sockets :
        /\ obs[s].turn_completed
        /\ obs[s].pq_done
        /\ ~obs[s].trace[1].ok
        /\ obs[s].trace[2].ok
        /\ YieldedTexts(s) = << <<"r">> >>
        /\ Last(obs[s].trace).op = "send"

\* The steps process_query takes itself.
GeneratorOps == {"yield", "call_tool", "create"}

\* C20: process_query is resumed after a yield only when the text yielded was
\* committed as an assistant Message and acknowledged: every step it takes
\* after a yield (a tool call, a provider call, the next yield) comes after
\* the commit, the cache store and the send of that text, and it returns only
\* after them.
C20_YieldHandledBeforeResume ==
    \A s \in Sockets :
        LET trace == obs[s].trace
        IN  \A j \in DOMAIN trace :
              (/\ trace[j].op = "yield"
               /\ \/ obs[s].pq_done
                  \/ \E k \in DOMAIN trace :
                        k > j /\ trace[k].op \in GeneratorOps) =>
                  /\ j + 3 <= Len(trace)
                  /\ trace[j + 1] = Ev("commit", trace[j].text, 0, TRUE)
                  /\ trace[j + 2].op = "store_last_message"
                  /\ trace[j + 2].text = trace[j].text
                  /\ trace[j + 3] = Ev("send", trace[j].text, 0, TRUE)

C20_Witness ==
    \E s \in Sockets :
        /\ obs[s].pq_first = <<Text(<<"r">>), ToolUse>>
        /\ Len(obs[s].trace) >= 7
        /\ obs[s].trace[3].op = "yield"
        /\ obs[s].trace[6].op = "send"
        /\ obs[s].trace[7].op = "call_tool"
        /\ Len(messages) = 5
        /\ messages[5].content = <<"r">>

\* The assistant Messages committed in the turn.
Commits(s) == SelectSeq(obs[s].trace, LAMBDA e : e.op = "commit" /\ e.ok)

\* C21: the assistant Messages a turn persists are, one for one and in
\* order, texts process_query yielded, and each text yielded is one text
\* segment of the first response (a different segment for each) or, after
\* the segments, the leading text of a follow-up response; the rows added to
\* the table hold these texts with role assistant, so nothing of a tool call
\* is persisted.
C21_AssistantMessageIsProviderText ==
    \A s \in Sockets :
        LET first == obs[s].pq_first
            yield == Steps(s, "yield")
        IN  /\ Len(Commits(s)) = obs[s].turn_assistant
            /\ Len(Commits(s)) <= Len(yield)
            /\ \A i \in DOMAIN Commits(s) : Commits(s)[i].text = yield[i].text
            /\ \A i \in DOMAIN yield :
                  /\ \A j \in DOMAIN yield : yield[j].n = yield[i].n => j = i
                  /\ IF yield[i].n \in DOMAIN first
                     THEN /\ first[yield[i].n].type = "text"
                          /\ yield[i].text = first[yield[i].n].text
                     ELSE /\ yield[i].n = Len(first) + 1
                          /\ yield[i].text = RetainedText(s)
            /\ ws[s].pc \in {"cache_store", "ack_assistant"} =>
                  /\ messages[ws[s].response_uuid].role = "assistant"
                  /\ messages[ws[s].response_uuid].content =
                        Last(Commits(s)).text
                  /\ ws[s].response_uuid = Len(messages)

C21_Witness ==
    \E s \in Sockets :
        /\ obs[s].pq_done
        /\ obs[s].pq_first = <<Text(<<"r">>), ToolUse>>
        /\ Len(Commits(s)) = 2
        /\ Len(messages) = 6
        /\ messages[5].content = <<"r">>
        /\ messages[6].content = <<"s">>
        /\ messages[6].role = "assistant"

(***************************************************************************)
(* Properties of the title generation.                                     *)
(***************************************************************************)
\* C22: the title is generated exactly once for a conversation: a session
\* issues the title provider call in a turn that produced an assistant text
\* on an untitled conversation, and issues it at most once.
C22_TitleGeneratedExactlyOnce ==
    \A s \in Sockets :
        /\ obs[s].title_calls <= 1
        /\ (obs[s].title_due /\ obs[s].turn_assistant >= 1) =>
              obs[s].title_calls = 1

\* C23: title generation is entered only in a turn that produced an
\* assistant text: the stored title is read, and the title provider call
\* issued, only after at least one assistant Message of this turn.
C23_TitleOnlyAfterAssistantText ==
    \A s \in Sockets :
        (obs[s].title_entered \/ obs[s].title_called) =>
            /\ obs[s].turn_assistant >= 1
            /\ obs[s].title_called => obs[s].title_due

\* C24: title generation never raises into the turn: a turn that produced
\* an assistant text on an untitled conversation, whatever the title
\* provider call does, is not failed by it and, with the peer there, ends
\* with typing-stopped and no error frame.
C24_TitleFailureNotRaised ==
    \A s \in Sockets :
        (obs[s].title_due /\ obs[s].turn_assistant >= 1) =>
            /\ ~obs[s].title_raised
            /\ (connected[s] /\ ws[s].pc = "receive") =>
                  /\ obs[s].turn_completed
                  /\ Last(ws[s].frames) = TypingFrame(FALSE)
                  /\ \A i \in DOMAIN ws[s].frames : ws[s].frames[i] # ErrorFrame


(***************************************************************************)
(* Attachments.                                                            *)
(***************************************************************************)
Range(seq) == { seq[i] : i \in DOMAIN seq }

\* C25: ids that resolve to no Document are dropped without failing the
\* turn.  The attachment block gives no URL to a dropped id; it fails only
\* on the commit of a Document that was found; when it goes on to
\* process_query there is one URL per list entry that resolved, every
\* Document found is bound to the user Message just created and no other
\* Document's reference changes.
C25_UnresolvedIdsDropped ==
    [][\A s \in Sockets :
          (ws[s].pc = "attachments" /\ ws'[s].pc # "attachments") =>
              LET ids == ws[s].message_attachments
                  known == { i \in DOMAIN ids : ids[i] \in DocumentIds }
                  found == obs'[s].found
              IN  /\ Len(ws'[s].urls) <= Cardinality(known)
                  /\ Range(found) \subseteq Range(ids) \cap DocumentIds
                  /\ ws'[s].pc # "process_query" => found # <<>>
                  /\ ws'[s].pc = "process_query" =>
                        /\ Len(ws'[s].urls) = Len(found)
                        /\ \A d \in DocumentIds :
                              documents'[d] =
                                  IF d \in Range(found)
                                  THEN ws[s].message_uuid
                                  ELSE documents[d]]_vars

\* The list [2, 9, 1, 2]: id 9 has no Document, the three other entries
\* resolve, Documents 1 and 2 are bound to the user Message and the turn has
\* gone on to the query.
C25_Witness ==
    \E s \in Sockets :
        /\ ws[s].pc = "process_query"
        /\ ws[s].message_attachments = <<2, 9, 1, 2>>
        /\ obs[s].found = <<2, 1, 2>>
        /\ Len(ws[s].urls) = 3
        /\ \A d \in DocumentIds : documents[d] = ws[s].message_uuid


\* C26: the URL list handed to process_query keeps the order of the ids of
\* the frame that resolved, and every entry is
\* {apiBase}/api/documents/{id}/download?access_token={token} for its id and
\* the caller's token.
C26_UrlsOrderedAndShaped ==
    \A s \in Sockets :
        ws[s].pc = "process_query" =>
            /\ Len(ws[s].urls) = Len(obs[s].found)
            /\ \A i \in DOMAIN ws[s].urls :
                  LET url == ws[s].urls[i]
                  IN  /\ Len(url) = 5
                      /\ <<url[1]>> \in ApiBaseUrls \ {None}
                      /\ url[2] = "/api/documents/"
                      /\ url[3] = obs[s].found[i]
                      /\ url[4] = "/download?access_token="
                      /\ url[5] = TokenOf(s)


\* C27: a Document's reference to a Message is set once: no step changes
\* the reference of a Document that is already bound.
C27_BackReferenceSetOnce ==
    [][\A d \in DocumentIds :
          documents[d] # 0 => documents'[d] = documents[d]]_vars


\* C28: turns of one connection never interleave.  receive_text is called
\* only from the top of the loop with no generator suspended, and when a
\* frame was read before, that frame was rejected, or its turn failed, or
\* its turn completed: the generator has returned, every text it yielded
\* was committed, handed to the cache and acknowledged, the title step has
\* run and typing-stopped is the last frame sent.
C28_TurnsNeverInterleave ==
    [][\A s \in Sockets :
          obs'[s].frames_read # obs[s].frames_read =>
              /\ ws[s].pc = "receive"
              /\ ws[s].pq_response = <<>> /\ ws[s].pq_idx = 0
              /\ obs[s].frames_read > 0 =>
                    \/ obs[s].malformed
                    \/ obs[s].turn_failed /\ ~obs[s].turn_completed
                    \/ /\ obs[s].turn_completed /\ ~obs[s].turn_failed
                       /\ obs[s].pq_done
                       /\ Len(Steps(s, "commit")) = Len(Steps(s, "yield"))
                       /\ Len(Steps(s, "store_last_message")) =
                              Len(Steps(s, "yield"))
                       /\ Len(Steps(s, "send")) = Len(Steps(s, "yield"))
                       /\ obs[s].title_done
                       /\ Last(ws[s].frames) = TypingFrame(FALSE)]_vars

\* A second frame has been read and accepted after a turn that persisted the
\* user Message and two assistant Messages.
C28_Witness ==
    \E s \in Sockets :
        /\ obs[s].frames_read = 2
        /\ ws[s].pc = "typing_start"
        /\ obs[s].persisted = 3


(***************************************************************************)
(* Properties of a whole session.                                          *)
(***************************************************************************)
IsAnswer(frame) ==
    \/ frame.type \in {"message", "update-conversation", "error"}
    \/ IsErrorText(frame)

\* C29: every frame a client sends and stays connected after is answered by
\* an acknowledgement, an update-conversation frame or an error frame: once
\* the session is back at receive_text or has returned, such a frame is
\* among those sent since the client's frame was read.
C29_EveryFrameAnswered ==
    \A s \in Sockets :
        (/\ connected[s]
         /\ obs[s].frames_read > 0
         /\ ws[s].pc \in {"receive", "done"}) =>
            \E i \in DOMAIN ws[s].frames : IsAnswer(ws[s].frames[i])


\* C30: between turns and at the end of the session, the session has sent as
\* many acknowledgements of assistant Messages as it has persisted assistant
\* Messages.
C30_AssistantAcksMatchPersisted ==
    \A s \in Sockets :
        ws[s].pc \in {"receive", "done"} =>
            obs[s].assistant_acked = obs[s].assistant_persisted


(***************************************************************************)
(* Order of the Messages of a conversation.                                *)
(***************************************************************************)
IsPrefix(p, q) ==
    /\ Len(p) <= Len(q)
    /\ \A i \in DOMAIN p : p[i] = q[i]

\* C31: Messages are persisted in the order they are emitted.  Every step
\* leaves the rows already in the table where they are and adds new rows
\* after them, with created_at not before theirs; in a turn the first row
\* added is the user Message, and the rows after it are assistant Messages
\* holding, in order, the texts process_query has yielded so far.
C31_PersistenceFollowsEmission ==
    [][/\ IsPrefix(messages, messages')
       /\ \A i, j \in DOMAIN messages' :
             i < j => messages'[i].created_at <= messages'[j].created_at
       /\ \A s \in Sockets :
             ws'[s].message_uuid # 0 =>
                 LET u == ws'[s].message_uuid
                     texts == [k \in DOMAIN Commits(s)' |-> Commits(s)'[k].text]
                 IN  /\ messages'[u].role = "user"
                     /\ messages'[u].content = ws'[s].message_content
                     /\ Len(messages') = u + Len(texts)
                     /\ IsPrefix(texts, YieldedTexts(s)')
                     /\ \A k \in DOMAIN texts :
                           /\ messages'[u + k].role = "assistant"
                           /\ messages'[u + k].content = texts[k]]_vars

\* The second turn of a session has persisted its user Message and two
\* assistant Messages after the rows of the first turn.
C31_Witness ==
    \E s \in Sockets :
        /\ obs[s].frames_read = 2
        /\ ws[s].message_uuid > 4
        /\ Len(Commits(s)) = 2
        /\ Len(messages) = ws[s].message_uuid + 2
        /\ messages[Len(messages)].content # messages[Len(messages) - 1].content


(***************************************************************************)
(* The provider's input.                                                   *)
(***************************************************************************)
\* C32: the message list of the first provider call has two turns.  The
\* first is the prior context as an assistant turn exactly when the prior
\* context is non-empty, and the priming user turn otherwise; the second is
\* a user turn holding the user's text and then one image block per
\* attachment URL, in the order of the URL list.
C32_MessagesSeeded ==
    [][\A s \in Sockets :
          (/\ ws[s].pc = "process_query"
           /\ ws'[s].pc # "process_query"
           /\ ws[s].mcp_session
           /\ obs[s].attaching) =>
              LET m == obs'[s].pq_messages
                  context == ws[s].last_message_text
                  urls == ws[s].urls
              IN  /\ Len(m) = 2
                  /\ m[1].role = "assistant" <=> Truthy(context)
                  /\ Truthy(context) => m[1].content = context
                  /\ ~Truthy(context) =>
                        m[1].role = "user" /\ m[1].content = PrimingText
                  /\ m[2].role = "user"
                  /\ Len(m[2].content) = 1 + Len(urls)
                  /\ m[2].content[1].type = "text"
                  /\ m[2].content[1].text = ws[s].message_content
                  /\ \A i \in DOMAIN urls :
                        /\ m[2].content[i + 1].type = "image"
                        /\ m[2].content[i + 1].source.type = "url"
                        /\ m[2].content[i + 1].source.url = urls[i]]_vars

\* A first call seeded with the prior context, its user turn carrying three
\* image blocks.
C32_Witness ==
    \E s \in Sockets :
        /\ Len(obs[s].pq_messages) = 2
        /\ obs[s].pq_messages[1].role = "assistant"
        /\ Len(obs[s].pq_messages[2].content) = 4

\* A first call seeded with the priming turn.
C32_WitnessPrimed ==
    \E s \in Sockets :
        /\ Len(obs[s].pq_messages) = 2
        /\ obs[s].pq_messages[1].role = "user"


(***************************************************************************)
(* A caller of the cache service on its own: the status routes of main.py, *)
(* test_redis.py and validate_system.py call the operations of             *)
(* RedisService one after the other.                                       *)
(***************************************************************************)
CacheConversations == {"c1", "c2"}
CacheContents == { <<>>, <<"r">>, <<"s">> }
CacheCaller == 1

\* The operation the caller did last: its arguments, whether the Redis calls
\* it made raised (cleanup_ok: the delete of a value that is no JSON), and
\* what it returned (ret for the bool of store, delete
\* and connect, text for get, list for get_active_conversations, count for
\* clear_all_conversations).
CacheOp(op, conversation_id, content, ok, ch) ==
    <<Upd([op |-> op, conversation_id |-> conversation_id,
           content |-> content, ok |-> ok,
           cleanup_ok |-> TRUE,
           ret |-> FALSE, text |-> None, list |-> <<>>, count |-> 0], ch)>>

Did(op) ==
    obs' = [obs EXCEPT ![CacheCaller] = Upd(@, [cache_op |-> op])]

Untouched ==
    UNCHANGED <<ws, connected, active_connections, messages, documents,
                conversations>>

\* The conversation ids of the keys redis.keys("healthy_mcp:last_message:*")
\* gives.
ActiveConversations(db) ==
    { key[3] : key \in { k \in DOMAIN db : k[1] = key_prefix
                                           /\ k[2] = "last_message" } }

\* The orders a list of the elements of S can have.
ListsOf(S) ==
    { l \in [1 .. Cardinality(S) -> S] : \A x \in S : \E i \in DOMAIN l : l[i] = x }

\* get_active_conversations(); Redis gives the keys in no defined order.
get_active_conversations(db, is_connected, backend_ok) ==
    IF ~is_connected \/ ~backend_ok THEN { <<>> }
    ELSE ListsOf(ActiveConversations(db))

\* clear_all_conversations(): redis.keys, then one redis.delete of them all.
clear_all_conversations(db, is_connected, keys_ok, delete_ok) ==
    IF ~is_connected \/ ~keys_ok THEN [ret |-> 0, db |-> db]
    ELSE LET keys == { k \in DOMAIN db : k[1] = key_prefix
                                         /\ k[2] = "last_message" }
         IN  IF keys = {} \/ ~delete_ok THEN [ret |-> 0, db |-> db]
             ELSE [ret |-> Cardinality(keys),
                   db |-> [k \in DOMAIN db \ keys |-> db[k]]]

\* RedisService.connect: from_url and a ping; a failure leaves redis None.
RedisConnect ==
    /\ \E ok \in BOOLEAN :
          /\ redis_connected' = ok
          /\ Did(CacheOp("connect", "", None, ok, [ret |-> ok]))
    /\ UNCHANGED redis_db
    /\ Untouched

\* RedisService.disconnect
RedisDisconnect ==
    /\ redis_connected
    /\ redis_connected' = FALSE
    /\ Did(CacheOp("disconnect", "", None, TRUE, <<>>))
    /\ UNCHANGED redis_db
    /\ Untouched

StoreLastMessage ==
    /\ \E c \in CacheConversations, m \in CacheContents, ok \in BOOLEAN :
          LET r == store_last_message(redis_db, redis_connected, c, m, 0, ok)
          IN  /\ redis_db' = r.db
              /\ Did(CacheOp("store", c, m, ok, [ret |-> r.ret]))
    /\ UNCHANGED redis_connected
    /\ Untouched

GetLastMessage ==
    /\ \E c \in CacheConversations, ok \in BOOLEAN, delete_ok \in BOOLEAN :
          LET r == get_last_message(redis_db, redis_connected, c, ok,
                                    delete_ok)
          IN  /\ redis_db' = r.db
              /\ Did(CacheOp("get", c, None, ok,
                             [text |-> r.ret, cleanup_ok |-> delete_ok]))
    /\ UNCHANGED redis_connected
    /\ Untouched

DeleteLastMessage ==
    /\ \E c \in CacheConversations, ok \in BOOLEAN :
          LET r == delete_last_message(redis_db, redis_connected, c, ok)
          IN  /\ redis_db' = r.db
              /\ Did(CacheOp("delete", c, None, ok, [ret |-> r.ret]))
    /\ UNCHANGED redis_connected
    /\ Untouched

GetActiveConversations ==
    /\ \E ok \in BOOLEAN :
       \E l \in get_active_conversations(redis_db, redis_connected, ok) :
          Did(CacheOp("list", "", None, ok, [list |-> l]))
    /\ UNCHANGED <<redis_db, redis_connected>>
    /\ Untouched

ClearAllConversations ==
    /\ \E keys_ok \in BOOLEAN, delete_ok \in BOOLEAN :
          LET r == clear_all_conversations(redis_db, redis_connected,
                                           keys_ok, delete_ok)
          IN  /\ redis_db' = r.db
              /\ Did(CacheOp("clear", "", None, keys_ok /\ delete_ok,
                             [count |-> r.ret]))
    /\ UNCHANGED redis_connected
    /\ Untouched

\* The keyspace the caller finds: empty, or an entry another writer left
\* for c1, which may be no JSON.
InitCache ==
    /\ ws = [s \in Sockets |-> InitLocals]
    /\ obs = [s \in Sockets |-> InitObs]
    /\ connected = [s \in Sockets |-> TRUE]
    /\ active_connections = <<>>
    /\ redis_connected \in BOOLEAN
    /\ messages = <<>>
    /\ redis_db \in { <<>>,
                      store_last_message(<<>>, TRUE, "c1", <<"r">>, 0, TRUE).db,
                      Setex(<<>>, _make_key("c1", "last_message"), default_ttl,
                            CorruptValue) }
    /\ documents = [d \in DocumentIds |-> 0]
    /\ conversations = <<>>

NextCache ==
    \/ RedisConnect
    \/ RedisDisconnect
    \/ StoreLastMessage
    \/ GetLastMessage
    \/ DeleteLastMessage
    \/ GetActiveConversations
    \/ ClearAllConversations

SpecCache == InitCache /\ [][NextCache]_vars


(***************************************************************************)
(* Properties of the cache service.                                        *)
(***************************************************************************)
LastOp == obs[CacheCaller].cache_op
ThisOp == obs'[CacheCaller].cache_op
CacheStep(op) == ThisOp # <<>> /\ ThisOp # LastOp /\ ThisOp[1].op = op
KeyOf(op) == _make_key(op[1].conversation_id, "last_message")

\* C33: on a connected service store_last_message(c, m) returns true and
\* leaves m, and nothing of an earlier value, under the key of c, and a
\* get_last_message(c) that follows it returns m.
C33_StoreThenGet ==
    [][/\ (CacheStep("store") /\ redis_connected /\ ThisOp[1].ok) =>
             /\ ThisOp[1].ret
             /\ KeyOf(ThisOp) \in DOMAIN redis_db'
             /\ redis_db'[KeyOf(ThisOp)].value =
                   JsonDumps([content |-> ThisOp[1].content,
                              conversation_id |-> ThisOp[1].conversation_id])
       /\ (/\ CacheStep("get") /\ ThisOp[1].ok
           /\ LastOp # <<>> /\ LastOp[1].op = "store" /\ LastOp[1].ret
           /\ LastOp[1].conversation_id = ThisOp[1].conversation_id) =>
             ThisOp[1].text = LastOp[1].content]_vars

\* get_last_message("c1") has returned "s": the keyspace the caller found
\* held nothing or "r" for c1.
C33_Witness ==
    /\ LastOp # <<>>
    /\ LastOp[1].op = "get"
    /\ LastOp[1].conversation_id = "c1"
    /\ LastOp[1].text = <<"s">>

\* C34: on a connected service delete_last_message(c) on a conversation
\* with an entry returns true, removes that entry and leaves every other
\* entry as it is, and a get_last_message(c) that follows returns None.
C34_DeleteThenGet ==
    [][/\ (/\ CacheStep("delete") /\ redis_connected /\ ThisOp[1].ok
           /\ KeyOf(ThisOp) \in DOMAIN redis_db) =>
             /\ ThisOp[1].ret
             /\ DOMAIN redis_db' = DOMAIN redis_db \ {KeyOf(ThisOp)}
             /\ \A k \in DOMAIN redis_db' : redis_db'[k] = redis_db[k]
       /\ (/\ CacheStep("get")
           /\ LastOp # <<>> /\ LastOp[1].op = "delete" /\ LastOp[1].ret
           /\ LastOp[1].conversation_id = ThisOp[1].conversation_id) =>
             ThisOp[1].text = None]_vars

\* The entry of c1 has been deleted and the entry of c2 is still there.
C34_Witness ==
    /\ LastOp # <<>>
    /\ LastOp[1].op = "delete"
    /\ LastOp[1].conversation_id = "c1"
    /\ LastOp[1].ret
    /\ DOMAIN redis_db = {_make_key("c2", "last_message")}


\* C40: an operation of the cache service called while the service is not
\* connected, or whose Redis call fails, returns its failure value (false
\* for store and delete, None for get, the empty list, 0 for clear) and
\* leaves the keyspace as it was; a get that finds a value that is no JSON
\* returns None and deletes that entry and no other.
C40_FailureValues ==
    [][LET failed == ~redis_connected \/ ~ThisOp[1].ok
       IN  /\ (CacheStep("store") /\ failed) =>
                 ~ThisOp[1].ret /\ redis_db' = redis_db
           /\ (CacheStep("delete") /\ failed) =>
                 ~ThisOp[1].ret /\ redis_db' = redis_db
           /\ (CacheStep("get") /\ failed) =>
                 ThisOp[1].text = None /\ redis_db' = redis_db
           /\ (CacheStep("list") /\ failed) =>
                 ThisOp[1].list = <<>> /\ redis_db' = redis_db
           /\ (CacheStep("clear") /\ failed) =>
                 ThisOp[1].count = 0 /\ redis_db' = redis_db
           /\ (/\ CacheStep("get") /\ ~failed
               /\ KeyOf(ThisOp) \in DOMAIN redis_db
               /\ ~redis_db[KeyOf(ThisOp)].value.valid) =>
                 /\ ThisOp[1].text = None
                 /\ ThisOp[1].cleanup_ok =>
                       /\ DOMAIN redis_db' = DOMAIN redis_db \ {KeyOf(ThisOp)}
                       /\ \A k \in DOMAIN redis_db' : redis_db'[k] = redis_db[k]
                 /\ ~ThisOp[1].cleanup_ok => redis_db' = redis_db]_vars

\* get_last_message("c1") found a value that is no JSON: it returned None
\* and the entry is gone, the entry of c2 is not.
C40_Witness ==
    /\ LastOp # <<>>
    /\ LastOp[1].op = "get"
    /\ LastOp[1].conversation_id = "c1"
    /\ LastOp[1].ok /\ LastOp[1].cleanup_ok
    /\ LastOp[1].text = None
    /\ redis_connected
    /\ DOMAIN redis_db = {_make_key("c2", "last_message")}

\* A store on a service that is not connected returned false and left the
\* entry of c1 as it was.
C40_WitnessNotConnected ==
    /\ LastOp # <<>>
    /\ LastOp[1].op = "store"
    /\ ~LastOp[1].ret
    /\ ~redis_connected
    /\ DOMAIN redis_db = {_make_key("c1", "last_message")}


\* C35: however many tool-use segments the first response has, process_query
\* yields at most one text that is not a text segment of that response: the
\* leading text of the last follow-up response that led with one, yielded
\* (when it is not empty) after every segment was processed.  The number of
\* texts yielded is at most the number of text segments plus 1.
C35_AtMostOneFollowUpText ==
    \A s \in Sockets :
        Responded(s) =>
            LET first == obs[s].pq_first
                trace == obs[s].trace
            IN  /\ Len(SegmentYields(s)) <= Len(TextsOf(first))
                /\ Len(FinalYields(s)) <= 1
                /\ Len(Steps(s, "yield")) <= Len(TextsOf(first)) + 1
                /\ FinalYields(s) # <<>> =>
                      /\ FinalYields(s)[1].text = RetainedText(s)
                      /\ Len(SegmentYields(s)) = Len(TextsOf(first))
                      /\ \A k, l \in DOMAIN trace :
                            (/\ trace[k].op = "yield"
                             /\ trace[k].n > Len(first)
                             /\ trace[l].op \in {"call_tool", "create", "yield"}
                             /\ l # k) => l < k
                /\ obs[s].pq_done =>
                      (FinalYields(s) # <<>> <=> Truthy(RetainedText(s)))

\* Two tool-use segments, two follow-up responses that led with a text, one
\* text yielded.
C35_Witness ==
    \E s \in Sockets :
        /\ obs[s].pq_done
        /\ obs[s].pq_first = <<ToolUse, ToolUse>>
        /\ Len(Retained(s)) = 2
        /\ Retained(s)[1].text = <<>>
        /\ YieldedTexts(s) = << <<"s">> >>


\* C36: the prior context of a turn is the content of the last assistant
\* Message the session persisted, or the context resolved at session start
\* when it has persisted none.  The message loop is entered with the
\* resolved context in last_message_text; from then on the session never
\* goes back to the cache read, the store query or the refill, and
\* last_message_text changes exactly when the session commits an assistant
\* Message, to that Message's content.
ContextSteps == {"get_cached", "query_store", "refill_cache"}

C36_PriorContextCarried ==
    [][\A s \in Sockets :
          /\ (~obs[s].loop_entered /\ obs'[s].loop_entered) =>
                /\ ws'[s].pc = "receive"
                /\ ws'[s].last_message_text = obs'[s].ctx
          /\ (obs[s].loop_entered /\ ws'[s].pc # "done") =>
                /\ ws'[s].pc \notin ContextSteps
                /\ obs'[s].cache_reads <= obs[s].cache_reads
                /\ obs'[s].store_reads <= obs[s].store_reads
                /\ ws'[s].last_message_text # ws[s].last_message_text =>
                      /\ ws[s].pc = "persist_assistant"
                      /\ Len(messages') = Len(messages) + 1
                /\ (/\ Len(messages') = Len(messages) + 1
                    /\ Last(messages').role = "assistant") =>
                      ws'[s].last_message_text = Last(messages').content]_vars

\* The second turn of a session is about to call process_query with the
\* text of the assistant Message its first turn persisted last; the session
\* had started with another context.
C36_Witness ==
    \E s \in Sockets :
        /\ ws[s].pc = "process_query"
        /\ obs[s].frames_read = 2
        /\ obs[s].assistant_persisted = 2
        /\ Len(messages) >= 3
        /\ messages[3].content = <<"r">>
        /\ ws[s].last_message_text = <<"s">>
        /\ messages[Len(messages) - 1].content = <<"s">>


\* C37: no step removes or changes a row of the Message table, whatever
\* fails; and once the tool catalog was fetched or the provider called in a
\* turn, the turn's user Message is in the table and its acknowledgement is
\* the second frame sent, and it is still there, followed by the assistant
\* Messages the turn persisted, when the turn has failed.
C37_UserMessageDurable ==
    [][/\ IsPrefix(messages, messages')
       /\ \A s \in Sockets :
             (Steps(s, "list_tools")' # <<>> \/ Steps(s, "create")' # <<>>) =>
                 LET f == ws'[s].frames
                 IN  /\ Len(f) >= 2
                     /\ IsAck(f[2], "user")
                     /\ f[2].uuid \in DOMAIN messages'
                     /\ messages'[f[2].uuid].role = "user"
                     /\ messages'[f[2].uuid].content = f[2].content
                     /\ Len(messages') = f[2].uuid + obs'[s].turn_assistant
                     /\ \A i \in DOMAIN messages' :
                           i > f[2].uuid => messages'[i].role = "assistant"]_vars

\* A turn that failed after it had persisted one assistant Message is back
\* at receive_text: the user Message and the assistant Message are in the
\* table.
C37_Witness ==
    \E s \in Sockets :
        /\ obs[s].turn_failed
        /\ ws[s].pc = "receive"
        /\ obs[s].turn_assistant = 1
        /\ Len(ws[s].frames) >= 2
        /\ IsAck(ws[s].frames[2], "user")
        /\ Len(messages) = ws[s].frames[2].uuid + 1
        /\ messages[Len(messages)].role = "assistant"
        /\ messages[Len(messages) - 1].role = "user"


\* ---------------------------------------------------------------------
\* C38: once a session handler is past its outer except clauses (it has
\* gone through manager.disconnect and is in or after finally), its socket
\* is not in active_connections; a socket in the list is one whose handler
\* has accepted and has not yet reached its disconnect, and the list never
\* holds a socket twice; and when the handler's disconnect finds the socket
\* already absent, the list it leaves (the list broadcast is then called
\* on, or the list itself when there is no broadcast) is the list as it was.
C38_ListedOnlyWhileConnected ==
    [][\A s \in DOMAIN ws :
        /\ ws'[s].pc \in {"finally", "done"} => ~InList(active_connections', s)
        /\ InList(active_connections', s)
              => ws'[s].pc \notin {"start", "finally", "done"}
        /\ \A i, j \in DOMAIN active_connections' :
              active_connections'[i] = active_connections'[j] => i = j
        /\ ( /\ ws[s].pc = "except_outer" /\ ws'[s].pc = "finally"
             /\ ~InList(active_connections, s) )
              => IF ws[s].exc = "WebSocketDisconnect"
                 THEN obs'[s].broadcast[1].to = active_connections
                 ELSE active_connections' = active_connections]_vars

\* A handler has returned whose socket an earlier broadcast of another
\* session had already removed, while a third socket is still listed.
C38_Witness ==
    \E s, t, u \in DOMAIN ws :
        /\ ws[s].pc = "done" /\ s # t /\ u # s
        /\ obs[t].broadcast # <<>>
        /\ s \in obs[t].broadcast[1].failing
        /\ s \in Range(obs[t].broadcast[1].attempted)
        /\ InList(active_connections, u)


\* ---------------------------------------------------------------------
\* C39: when a handler's disconnect clause broadcasts, every connection of
\* the list broadcast is called on gets a send attempt, and the list left
\* is that list without exactly the connections whose send raised.
C39_BroadcastReachesEveryConnection ==
    [][\A s \in DOMAIN ws :
        ( /\ ws[s].pc = "except_outer" /\ ws'[s].pc = "finally"
          /\ ws[s].exc = "WebSocketDisconnect" )
          => LET b == obs'[s].broadcast[1]
                 raised == b.failing \cap Range(b.attempted)
             IN  /\ Range(b.attempted) = Range(b.to)
                 /\ active_connections'
                      = SelectSeq(b.to, LAMBDA c : c \notin raised)]_vars

====
